---- MODULE Spec2Model ----
(***************************************************************************)
(* Labyrinthe des mots: the graph benchmark (scripts/benchmark_lemma_graph *)
(* .py) and the clustering run (scripts/compute_clusters.py).              *)
(*                                                                         *)
(* Conventions of the translation:                                         *)
(*  - a Python list is a sequence; Python's 0-based vertex index i is the  *)
(*    1-based index i+1 here;                                              *)
(*  - a pandas frame is the sequence of its rows, in row order;            *)
(*  - a dict is the sequence of its <<key, value>> pairs in insertion      *)
(*    order where the code depends on that order, a function otherwise;    *)
(*  - a dynamically typed JSON value is a record [kind, repr]: its Python  *)
(*    type and its str() form;                                             *)
(*  - a float that is a quotient of two integers is the reduced fraction.  *)
(***************************************************************************)
EXTENDS Integers, Sequences, FiniteSets, TLC

VARIABLES
    \* benchmark_lemma_graph.main
    nodes,      \* the base node frame (column lemma)
    edges,      \* the base edge frame
    nodes0,     \* the node frame as load_lemma_graph returned it
    edges0,     \* the edge frame as load_lemma_graph returned it
    scenarios,  \* the list of scenarios, in the order they run
    done,       \* how many scenarios of the list have run
    n2,         \* the scenario's derived node frame
    e2,         \* the scenario's derived edge frame
    g,          \* to_igraph(n2, e2)
    report,     \* report["scenarios"]: one scen_entry per scenario run
    rng,        \* the state of Python's module-level random generator
    \* compute_clusters.main
    raw_nodes,      \* data["nodes"]
    raw_links,      \* data["links"] or data["edges"]
    max_nodes,      \* the optional node cap (None or an int)
    id_map,         \* raw id -> canonical id
    degree,         \* canonical id -> degree, in insertion order
    selected_ids,   \* the ids kept for clustering
    cg,             \* the igraph graph build_igraph returns
    pc,             \* the step main has reached
    la_installed,   \* whether `import leidenalg` succeeds
    la_calls,       \* how many times la.find_partition has been called
    levels_mapping,     \* run_leiden_levels(g)
    cluster_positions,  \* level name -> compute_cluster_layout(...)
    layout_trace,   \* per level, compute_cluster_layout's g and layout
    output,         \* the JSON document written to output_path, if any
    \* two calls of a sampled metric on one graph
    sg,         \* the graph
    args,       \* the function called, its sample size and its seed
    ref,        \* the first invocation: generator state found, draws, result
    last,       \* the second invocation: generator state found, draws, result
    \* reading the input document
    doc,        \* the JSON input document
    bpc,        \* the step benchmark_lemma_graph.main has reached
    \* one call of sparql_query
    max_retries, \* the argument
    attempt,    \* the attempts finished
    backoff,    \* the number of times backoff was multiplied by 1.7
    sent,       \* the answers to the requests sent, in order
    slept,      \* the arguments of the calls of time.sleep, in order
    spc,        \* where the call is
    outcome     \* what the call returned or raised

benchVars ==
    <<nodes, edges, nodes0, edges0, scenarios, done, n2, e2, g, report>>
clusterVars ==
    <<raw_nodes, raw_links, max_nodes, id_map, degree, selected_ids, cg, pc,
      la_installed, la_calls, levels_mapping, cluster_positions,
      layout_trace, output>>
\* what main computes after the graph is built
lateVars ==
    <<la_calls, levels_mapping, cluster_positions, layout_trace, output>>
sampleVars == <<sg, args, ref, last>>
loadVars == <<doc, bpc>>
fetchVars == <<max_retries, attempt, backoff, sent, slept, spc, outcome>>
vars == <<benchVars, clusterVars, sampleVars, loadVars, fetchVars, rng>>

----------------------------------------------------------------------------
\* Bounds of the model

MaxEdges == 3       \* rows of the input edge frame
MaxDraws == 60      \* sequences of values the draws of an invocation can take
MaxLinks == 3       \* records of the input link list

----------------------------------------------------------------------------
\* Generic helpers

Max2(a, b) == IF a >= b THEN a ELSE b
Min2(a, b) == IF a <= b THEN a ELSE b
SetMax(S) == CHOOSE x \in S : \A y \in S : y <= x
SetMin(S) == CHOOSE x \in S : \A y \in S : x <= y
Elems(s) == {s[i] : i \in DOMAIN s}

RECURSIVE SeqSum(_)
SeqSum(s) == IF s = <<>> THEN 0 ELSE Head(s) + SeqSum(Tail(s))

RECURSIVE Gcd(_, _)
Gcd(a, b) == IF b = 0 THEN a ELSE Gcd(b, a % b)

\* a / b as a float, kept as the reduced fraction
Quot(a, b) == LET d == Gcd(a, b) IN [num |-> a \div d, den |-> b \div d]

\* The increasing enumeration of a finite set of integers
RECURSIVE SetToSeq(_)
SetToSeq(S) ==
    IF S = {} THEN <<>> ELSE <<SetMin(S)>> \o SetToSeq(S \ {SetMin(S)})

\* sorted(range(n), key=lambda i: key[i], reverse=True): Python's sort is
\* stable, also with reverse=True, so equal keys keep their index order.
SortedDesc(n, key) ==
    LET Pos(i) == Cardinality({j \in 1..n : key[j] > key[i]})
                  + Cardinality({j \in 1..n : key[j] = key[i] /\ j < i}) + 1
    IN  [p \in 1..n |-> CHOOSE i \in 1..n : Pos(i) = p]

\* s[:k]
Take(s, k) == SubSeq(s, 1, Min2(k, Len(s)))

----------------------------------------------------------------------------
\* Relation-type labels. sorted() on labels is the alphabetical order, which
\* is the order of this list.

LabelOrder == <<"ANTONYM", "DERIVATION", "HYPERNYM">>
Labels == Elems(LabelOrder)

\* sorted(S) for a set of labels
SortedLabels(S) ==
    LET pick == SetToSeq({i \in DOMAIN LabelOrder : LabelOrder[i] \in S})
    IN  [k \in DOMAIN pick |-> LabelOrder[pick[k]]]

\* relationTypeCounts: None, or a dict label -> count
EmptyDict == [k \in {} |-> 0]
NoCounts == [isdict |-> FALSE, d |-> EmptyDict]
Counts(f) == [isdict |-> TRUE, d |-> f]
Restrict(f, S) == [k \in S |-> f[k]]

RECURSIVE SumOver(_, _)
SumOver(f, S) ==
    IF S = {} THEN 0
    ELSE LET k == CHOOSE x \in S : TRUE IN f[k] + SumOver(f, S \ {k})

----------------------------------------------------------------------------
\* igraph graphs: [n, id, es]; es is the edge list, each edge with its two
\* vertex indices u, v and its attributes.

\* to_igraph: idx maps a lemma to the LAST row holding it (dict
\* comprehension); edges with an endpoint outside idx are filtered out; no
\* simplification is applied.
Idx(ids, v) == SetMax({i \in DOMAIN ids : ids[i] = v})

ToIgraph(nd, ed) ==
    LET ids == nd
        known == Elems(ids)
        Keep(r) == r.source \in known /\ r.target \in known
        f == SelectSeq(ed, Keep)
    IN  [n  |-> Len(ids),
         id |-> ids,
         es |-> [k \in DOMAIN f |->
                    [u |-> Idx(ids, f[k].source),
                     v |-> Idx(ids, f[k].target),
                     weight |-> f[k].weight,
                     relationTypes |-> f[k].relationTypes,
                     relationTypeCounts |-> f[k].relationTypeCounts]]]

VCount(gr) == gr.n
ECount(gr) == Len(gr.es)

\* Graph.degree(): every edge end counts, so a self-loop counts twice
Degree(gr) ==
    [i \in 1..gr.n |->
        Cardinality({k \in DOMAIN gr.es : gr.es[k].u = i})
        + Cardinality({k \in DOMAIN gr.es : gr.es[k].v = i})]

Adj(gr, a) ==
    {gr.es[k].v : k \in {j \in DOMAIN gr.es : gr.es[j].u = a}}
    \cup {gr.es[k].u : k \in {j \in DOMAIN gr.es : gr.es[j].v = a}}

RECURSIVE Reach(_, _)
Reach(gr, S) ==
    LET N == S \cup UNION {Adj(gr, a) : a \in S}
    IN  IF N = S THEN S ELSE Reach(gr, N)

\* Graph.components(): the components in the order of their smallest
\* vertex, each as its vertex set
Components(gr) ==
    LET root == [v \in 1..gr.n |-> SetMin(Reach(gr, {v}))]
        roots == SetToSeq({root[v] : v \in 1..gr.n})
    IN  [k \in DOMAIN roots |-> {v \in 1..gr.n : root[v] = roots[k]}]

CompSizes(gr) ==
    LET c == Components(gr) IN [k \in DOMAIN c |-> Cardinality(c[k])]

\* Graph.subgraph(vertices): the induced subgraph; vertices keep their
\* relative order, whatever the order of the selection
InducedSubgraph(gr, V) ==
    LET vs == SetToSeq(V)
        New(old) == CHOOSE p \in DOMAIN vs : vs[p] = old
        In(e) == e.u \in V /\ e.v \in V
        f == SelectSeq(gr.es, In)
    IN  [n  |-> Len(vs),
         id |-> [p \in DOMAIN vs |-> gr.id[vs[p]]],
         es |-> [k \in DOMAIN f |->
                    [f[k] EXCEPT !.u = New(f[k].u), !.v = New(f[k].v)]]]

\* VertexClustering.giant(): the first component of maximal size
Giant(gr) ==
    LET First(ss) == SetMin({k \in DOMAIN ss : ss[k] = SetMax(Elems(ss))})
        Of(c) ==
            InducedSubgraph(gr,
                c[First([k \in DOMAIN c |-> Cardinality(c[k])])])
    IN  Of(Components(gr))

\* Graph.distances(source=s, weights=None)[0]: hop counts, Inf when
\* unreachable
Inf == 0 - 1
IsInf(d) == d = Inf

RECURSIVE BfsFrom(_, _, _, _, _)
BfsFrom(gr, frontier, seen, d, acc) ==
    IF frontier = {} THEN acc
    ELSE LET nxt == (UNION {Adj(gr, a) : a \in frontier}) \ seen
         IN  BfsFrom(gr, nxt, seen \cup nxt, d + 1,
                     [v \in 1..gr.n |-> IF v \in frontier THEN d ELSE acc[v]])

Distances(gr, s) == BfsFrom(gr, {s}, {s}, 0, [v \in 1..gr.n |-> Inf])

----------------------------------------------------------------------------
\* Python's module-level random generator. The state of the Mersenne
\* Twister is kept as one of RngMod abstract states: random.seed(x) sets it
\* as a function of x alone and every draw advances it. The values drawn are
\* not computed: a draw of _randbelow(n) can give any value of 0..n-1. What
\* the model keeps of the generator being a function of its state is that
\* the draws made from one state are the same each time: the actions recall
\* the draws a state gave.

RngMod == 5
RngStates == 0..(RngMod - 1)

\* the state random.seed(seed) sets
RandomSeed(seed) == (7 * seed + 1) % RngMod

\* random.seed(seed) left out: the generator stays in the state it is in
KeepGenerator(seed, st) == st

\* random.seed(seed), executed in state st: the state it leaves
SeedGenerator(seed, st) == RandomSeed(seed)

\* the state after one draw, after k draws
RngStep(st) == (st + 1) % RngMod
RECURSIVE RngAfter(_, _)
RngAfter(st, k) == IF k = 0 THEN st ELSE RngAfter(RngStep(st), k - 1)

\* _randbelow(n): the values it can return
RandBelow(n) == 0..(n - 1)

\* the values the k draws of random.sample over n elements can take: draw i
\* (from 0) is _randbelow(n - i)
RECURSIVE Draws(_, _)
Draws(n, k) ==
    IF k = 0 THEN {<<>>}
    ELSE {<<j>> \o t : j \in RandBelow(n), t \in Draws(n - 1, k - 1)}

\* random.sample(population, k), pool branch (len(population) <= 21), with
\* the values its draws returned:
\*   for i in range(k): j = randbelow(n - i); result[i] = pool[j];
\*                      pool[j] = pool[n - i - 1]
RECURSIVE SampleLoop(_, _, _, _, _)
SampleLoop(pool, n, k, draws, res) ==
    IF Len(res) = k THEN res
    ELSE LET Pick(i, j) ==
                 SampleLoop([pool EXCEPT ![j] = pool[n - i]], n, k, draws,
                            Append(res, pool[j]))
         IN  Pick(Len(res), draws[Len(res) + 1] + 1)

RandomSample(population, k, draws) ==
    SampleLoop(population, Len(population), k, draws, <<>>)

----------------------------------------------------------------------------
\* Scenarios. A transform returns the derived frames (n, e) and the two
\* frames it was given as they are after the call (nIn, eIn): pandas frames
\* are mutable objects, and a transform that assigns a column without
\* copying first changes its argument.

Scenario(kind, th, remove, frac) ==
    [kind |-> kind, th |-> th, remove |-> remove, frac |-> frac]
NoFrac == <<0, 1>>

\* scen_baseline: lambda n, e: (n, e)
ScenBaseline(nd, ed) == [n |-> nd, e |-> ed, nIn |-> nd, eIn |-> ed]

\* scen_weight_ge(th)._t: e[e["weight"] >= th].copy()
ScenWeightGe(th, nd, ed) ==
    LET Ge(r) == r.weight >= th
    IN  [n |-> nd, e |-> SelectSeq(ed, Ge), nIn |-> nd, eIn |-> ed]

\* scen_remove_types(remove)._t
HasCounts(x) == x.isdict /\ DOMAIN x.d # {}

\* the accurate path with the weight left as it was
RemoveTypesCountsRowKeepWeight(remove, row) ==
    LET keptKeys == DOMAIN row.relationTypeCounts.d \ remove
    IN  IF keptKeys = {}
        THEN [row EXCEPT !.relationTypeCounts = NoCounts,
                         !.relationTypes = <<>>,
                         !.weight = 0]
        ELSE [row EXCEPT !.relationTypeCounts =
                            Counts(Restrict(row.relationTypeCounts.d,
                                            keptKeys)),
                         !.relationTypes = SortedLabels(keptKeys)]

\* one row of the accurate path (lines 107-121)
RemoveTypesCountsRow(remove, row) ==
    LET counts == IF row.relationTypeCounts.isdict
                  THEN row.relationTypeCounts.d
                  ELSE [t \in Elems(row.relationTypes) |-> 1]
        keptKeys == DOMAIN counts \ remove
        kept == Restrict(counts, keptKeys)
        w == SumOver(kept, keptKeys)
    IN  IF w <= 0
        THEN [row EXCEPT !.relationTypeCounts = NoCounts,
                         !.relationTypes = <<>>,
                         !.weight = 0]
        ELSE [row EXCEPT !.relationTypeCounts = Counts(kept),
                         !.relationTypes = SortedLabels(keptKeys),
                         !.weight = w]

\* one row of the presence-based fallback (lines 130-135)
RemoveTypesFilt(remove, row) ==
    LET NotRemoved(t) == t \notin remove
    IN  [row EXCEPT !.relationTypes = SelectSeq(row.relationTypes, NotRemoved)]

\* the frame with its columns reassigned, before rows are filtered out
RemoveTypesAssigned(remove, ed) ==
    IF \E k \in DOMAIN ed : HasCounts(ed[k].relationTypeCounts)
    THEN [k \in DOMAIN ed |-> RemoveTypesCountsRow(remove, ed[k])]
    ELSE [k \in DOMAIN ed |-> RemoveTypesFilt(remove, ed[k])]

\* the rows are reassigned but none is filtered out
RemoveTypesKeepAll(remove, ed) == RemoveTypesAssigned(remove, ed)

RemoveTypesResult(remove, ed) ==
    LET Positive(r) == r.weight > 0
        HasTypes(r) == Len(r.relationTypes) > 0
        a == RemoveTypesAssigned(remove, ed)
    IN  IF \E k \in DOMAIN ed : HasCounts(ed[k].relationTypeCounts)
        THEN SelectSeq(a, Positive)
        ELSE SelectSeq(a, HasTypes)

\* without e2 = e.copy() the column assignments land in the base frame
ScenRemoveTypesNoCopy(remove, nd, ed) ==
    [n |-> nd, e |-> RemoveTypesResult(remove, ed), nIn |-> nd,
     eIn |-> RemoveTypesAssigned(remove, ed)]

ScenRemoveTypes(remove, nd, ed) ==
    [n |-> nd, e |-> RemoveTypesResult(remove, ed), nIn |-> nd, eIn |-> ed]

\* scen_drop_top_degree(frac)._t; frac is the fraction frac[1] / frac[2],
\* 0 < frac[1] <= frac[2], and the argument of the factory is the double
\* nearest to it. len(ids) * frac is a product of doubles, rounded to a
\* double, and int() truncates it. A double is kept as the 53 bits of its
\* significand, in five digits: the leading bit, then four digits of
\* LimbBits bits each, and a scale: the value is the significand, read
\* with the binary point after the leading digit, divided by 2^scale. The
\* leading digit of a product is not limited to one bit. The arithmetic
\* stays within 32 bits for frac[2] < 2^17 and len(ids) < 2^12.
LimbBits == 13
Limbs == 4

RECURSIVE Pow2(_)
Pow2(k) == IF k = 0 THEN 1 ELSE 2 * Pow2(k - 1)
Limb == Pow2(LimbBits)

\* the number of bits of v >= 1
RECURSIVE BitLength(_)
BitLength(v) == IF v <= 1 THEN 1 ELSE 1 + BitLength(v \div 2)

\* the smallest s with p * 2^s >= q
RECURSIVE Scale(_, _)
Scale(p, q) == IF p >= q THEN 0 ELSE 1 + Scale(2 * p, q)

\* digits + a at place i, with the carries into the places before it
RECURSIVE AddAt(_, _, _)
AddAt(digits, i, a) ==
    IF i = 1 THEN [digits EXCEPT ![1] = @ + a]
    ELSE IF a = 0 THEN digits
    ELSE AddAt([digits EXCEPT ![i] = (@ + a) % Limb], i - 1,
               (digits[i] + a) \div Limb)

\* digits * n from place i back, with a carry
RECURSIVE TimesAt(_, _, _, _)
TimesAt(digits, i, n, carry) ==
    IF i = 1 THEN [digits EXCEPT ![1] = @ * n + carry]
    ELSE TimesAt([digits EXCEPT ![i] = (@ * n + carry) % Limb], i - 1, n,
                 (digits[i] * n + carry) \div Limb)

\* the long division r / q, one digit per step: the digits and the
\* remainder left
RECURSIVE DivDigits(_, _, _)
DivDigits(r, q, digits) ==
    IF Len(digits) = Limbs + 1 THEN [digits |-> digits, rem |-> r]
    ELSE DivDigits((r * Limb) % q, q, Append(digits, (r * Limb) \div q))

\* the double nearest to frac[1] / frac[2]: round to nearest, ties to even
DoubleOf(frac) ==
    LET Rounded(d, sc) ==
            [digits |->
                IF 2 * d.rem > frac[2]
                   \/ (2 * d.rem = frac[2] /\ d.digits[Limbs + 1] % 2 = 1)
                THEN AddAt(d.digits, Limbs + 1, 1) ELSE d.digits,
             scale |-> sc]
        OnScale(sc) ==
            Rounded(DivDigits((frac[1] * Pow2(sc)) % frac[2], frac[2], <<1>>),
                    sc)
    IN  OnScale(Scale(frac[1], frac[2]))

\* an exact product rounded to a double: the bits its leading digit has
\* above one are dropped from the last digit, round to nearest, ties to even
RoundToDouble(digits) ==
    LET Drop(ld, unit) ==
            IF (ld % unit) * 2 > unit
               \/ ((ld % unit) * 2 = unit /\ (ld \div unit) % 2 = 1)
            THEN AddAt([digits EXCEPT ![Limbs + 1] = ld - (ld % unit)],
                       Limbs + 1, unit)
            ELSE [digits EXCEPT ![Limbs + 1] = ld - (ld % unit)]
    IN  Drop(digits[Limbs + 1], Pow2(BitLength(digits[1]) - 1))

\* int(n * frac): the whole part of the rounded product, which lies in its
\* leading digit
IntOfProduct(n, frac) ==
    LET OnDouble(d) ==
            RoundToDouble(TimesAt(d.digits, Limbs + 1, n, 0))[1]
                \div Pow2(d.scale)
    IN  IF n = 0 THEN 0 ELSE OnDouble(DoubleOf(frac))

\* k = max(1, int(len(ids) * frac))
DropCount(n, frac) == Max2(1, IntOfProduct(n, frac))

DropTopIdxAsc(gr, k) ==
    LET deg == Degree(gr)
        neg == [i \in 1..gr.n |-> 0 - deg[i]]
    IN  Take(SortedDesc(gr.n, neg), k)

DropTopIdx(gr, k) == Take(SortedDesc(gr.n, Degree(gr)), k)

ScenDropTopDegree(frac, nd, ed) ==
    LET gr == ToIgraph(nd, ed)
        ids == gr.id
        k == DropCount(Len(ids), frac)
        top_idx == DropTopIdx(gr, k)
        drop == {ids[top_idx[p]] : p \in DOMAIN top_idx}
        KeepNode(l) == l \notin drop
        KeepEdge(r) == r.source \notin drop /\ r.target \notin drop
    IN  [n |-> SelectSeq(nd, KeepNode), e |-> SelectSeq(ed, KeepEdge),
         nIn |-> nd, eIn |-> ed]

\* sc.transform(nodes, edges)
Transform(sc, nd, ed) ==
    CASE sc.kind = "baseline" -> ScenBaseline(nd, ed)
      [] sc.kind = "weight"   -> ScenWeightGe(sc.th, nd, ed)
      [] sc.kind = "remove"   -> ScenRemoveTypes(sc.remove, nd, ed)
      [] sc.kind = "drop"     -> ScenDropTopDegree(sc.frac, nd, ed)

----------------------------------------------------------------------------
\* Metrics and rankings

DistSamples == 1000
DefaultSeed == 123
HubsK == 20
BridgesK == 20
BridgeSample == 4000

NoneInt == [none |-> TRUE, v |-> 0]
SomeInt(x) == [none |-> FALSE, v |-> x]
NoneFrac == [none |-> TRUE, num |-> 0, den |-> 1]
SomeFrac(a, b) == [none |-> FALSE, num |-> Quot(a, b).num, den |-> Quot(a, b).den]

\* the distances of the first sampled source only
DistsAllFirstOnly(lcc, sources) ==
    LET Counted(d) == d > 0 /\ d # 0 - 1
    IN  IF sources = <<>> THEN <<>>
        ELSE SelectSeq(Distances(lcc, Head(sources)), Counted)

\* the finite positive distances of the rows of the sampled sources, in
\* the order the loops append them
RECURSIVE DistsAll(_, _)
DistsAll(lcc, sources) ==
    IF sources = <<>> THEN <<>>
    ELSE LET row == Distances(lcc, Head(sources))
             Counted(d) == d > 0 /\ ~IsInf(d)
         IN  SelectSeq(row, Counted) \o DistsAll(lcc, Tail(sources))

DistUndefined == [avg_path_lcc |-> NoneFrac, diameter_lcc |-> NoneInt]

\* approx_distances_on_lcc after its random.seed(seed): st is the state
\* the sample is drawn from, draws the values its draws return; the result
\* and the generator state the call leaves
DistancesFrom(gr, samples, st, draws) ==
    LET Result(dists_all) ==
            [res |->
                IF dists_all = <<>> THEN DistUndefined
                ELSE [avg_path_lcc |->
                         SomeFrac(SeqSum(dists_all), Len(dists_all)),
                      diameter_lcc |-> SomeInt(SetMax(Elems(dists_all)))],
             rng |-> RngAfter(st, Len(draws))]
        OnVs(lcc, vs) ==
            Result(DistsAll(lcc,
                            RandomSample(vs, Min2(samples, Len(vs)), draws)))
        OnLcc(lcc) ==
            IF VCount(lcc) < 2 \/ ECount(lcc) = 0
            THEN [res |-> DistUndefined, rng |-> st]
            ELSE OnVs(lcc, [i \in 1..VCount(lcc) |-> i])
    IN  IF VCount(gr) < 2 \/ ECount(gr) = 0
        THEN [res |-> DistUndefined, rng |-> st]
        ELSE OnLcc(Giant(gr))

\* the values the draws of that call can take: none when it returns before
\* sampling
DistDraws(gr, samples) ==
    LET OnLcc(n, m) ==
            IF n < 2 \/ m = 0 THEN {<<>>} ELSE Draws(n, Min2(samples, n))
        Of(lcc) == OnLcc(VCount(lcc), ECount(lcc))
    IN  IF VCount(gr) < 2 \/ ECount(gr) = 0 THEN {<<>>} ELSE Of(Giant(gr))

ApproxDistancesOnLcc(gr, samples, seed, st, draws) ==
    DistancesFrom(gr, samples, SeedGenerator(seed, st), draws)

\* top_degree
TopDegree(gr, k) ==
    LET deg == Degree(gr)
        ranked == Take(SortedDesc(VCount(gr), deg), k)
    IN  [p \in DOMAIN ranked |->
            [lemma |-> gr.id[ranked[p]], degree |-> deg[ranked[p]]]]

\* Graph.betweenness(directed=False, weights=None). A betweenness is a sum
\* of quotients of path counts; it is kept multiplied by BtwScale, a common
\* multiple of the path counts of the graphs of the model.
BtwScale == 12

RECURSIVE NPaths(_, _, _, _)
NPaths(gr, dist, s, v) ==
    IF v = s THEN 1
    ELSE LET viaU == {k \in DOMAIN gr.es :
                        gr.es[k].v = v /\ dist[gr.es[k].u] = dist[v] - 1}
             viaV == {k \in DOMAIN gr.es :
                        gr.es[k].u = v /\ dist[gr.es[k].v] = dist[v] - 1}
         IN  SumOver([k \in viaU |-> NPaths(gr, dist, s, gr.es[k].u)], viaU)
             + SumOver([k \in viaV |-> NPaths(gr, dist, s, gr.es[k].v)], viaV)

Betweenness(gr) ==
    LET V == 1..gr.n
        dist == [s \in V |-> Distances(gr, s)]
        sig == [s \in V |-> [v \in V |->
                  IF IsInf(dist[s][v]) THEN 0 ELSE NPaths(gr, dist[s], s, v)]]
        Through(v) == {p \in V \X V :
                         /\ p[1] < p[2] /\ p[1] # v /\ p[2] # v
                         /\ ~IsInf(dist[p[1]][p[2]])
                         /\ ~IsInf(dist[p[1]][v])
                         /\ dist[p[1]][v] + dist[v][p[2]] = dist[p[1]][p[2]]}
    IN  [v \in V |->
            SumOver([p \in Through(v) |->
                        (BtwScale * sig[p[1]][v] * sig[v][p[2]])
                            \div sig[p[1]][p[2]]],
                    Through(v))]

\* top_bridges_betweenness_approx after its random.seed(seed): st is the
\* state the sample is drawn from, draws the values its draws return
BridgesFrom(gr, k, sample, st, draws) ==
    LET Result(sub, btw, ranked) ==
            [res |-> [p \in DOMAIN ranked |->
                        [lemma |-> sub.id[ranked[p]],
                         betweenness |-> btw[ranked[p]]]],
             rng |-> RngAfter(st, Len(draws))]
        OnBtw(sub, btw) ==
            Result(sub, btw, Take(SortedDesc(VCount(sub), btw), k))
        OnSub(sub) == OnBtw(sub, Betweenness(sub))
        OnVerts(lcc, verts) == OnSub(InducedSubgraph(lcc, Elems(verts)))
        OnTake(lcc, n, take) ==
            OnVerts(lcc, RandomSample([i \in 1..n |-> i], take, draws))
        OnLcc(lcc) ==
            IF VCount(lcc) < 5 \/ ECount(lcc) = 0
            THEN [res |-> <<>>, rng |-> st]
            ELSE OnTake(lcc, VCount(lcc), Min2(sample, VCount(lcc)))
    IN  IF VCount(gr) < 5 \/ ECount(gr) = 0 THEN [res |-> <<>>, rng |-> st]
        ELSE OnLcc(Giant(gr))

BridgeDraws(gr, sample) ==
    LET OnLcc(n, m) ==
            IF n < 5 \/ m = 0 THEN {<<>>} ELSE Draws(n, Min2(sample, n))
        Of(lcc) == OnLcc(VCount(lcc), ECount(lcc))
    IN  IF VCount(gr) < 5 \/ ECount(gr) = 0 THEN {<<>>} ELSE Of(Giant(gr))

TopBridgesBetweennessApprox(gr, k, sample, seed, st, draws) ==
    BridgesFrom(gr, k, sample, SeedGenerator(seed, st), draws)

\* compute_metrics.pct(p) over deg_sorted = sorted(deg)
Pct(deg, p) ==
    LET n == Len(deg)
        neg == [i \in 1..n |-> 0 - deg[i]]
        asc == SortedDesc(n, neg)
        i == (p * (n - 1)) \div 100
    IN  IF n = 0 THEN 0 ELSE deg[asc[i + 1]]

\* the relation-type coverage: type_counts in insertion order, sorted by
\* count, the first 10; the model keeps the list of (label, count) that
\* top_types_str prints as "label:count" joined by ";"
RECURSIVE Flatten(_)
Flatten(ss) == IF ss = <<>> THEN <<>> ELSE Head(ss) \o Flatten(Tail(ss))

TopTypes(ed) ==
    LET flat == Flatten([k \in DOMAIN ed |-> ed[k].relationTypes])
        firsts == SetToSeq({i \in DOMAIN flat :
                              \A j \in 1..(i - 1) : flat[j] # flat[i]})
        cnt == [q \in DOMAIN firsts |->
                  Cardinality({i \in DOMAIN flat : flat[i] = flat[firsts[q]]})]
        order == Take(SortedDesc(Len(firsts), cnt), 10)
    IN  [p \in DOMAIN order |-> <<flat[firsts[order[p]]], cnt[order[p]]>>]

\* compute_metrics: installed says whether the import of leidenalg at the
\* top of the module succeeded, st is the generator state the call finds and
\* draws the values its sample draws. clustering_lcc, max_kcore and the two
\* leiden values are kept as defined or not.
ComputeMetrics(nd, ed, st, installed, draws) ==
    LET Snapshot(n, m, deg, comp_sizes, lcc_size, hasLcc, lccBig, dist) ==
            [met |->
                [n_nodes |-> n,
                 n_edges |-> m,
                 n_components |-> Len(comp_sizes),
                 lcc_size |-> lcc_size,
                 lcc_ratio |-> IF n # 0 THEN SomeFrac(lcc_size, n)
                               ELSE SomeFrac(0, 1),
                 isolates |-> Cardinality({i \in 1..n : deg[i] = 0}),
                 deg_p50 |-> Pct(deg, 50),
                 deg_p95 |-> Pct(deg, 95),
                 deg_max |-> IF n = 0 THEN 0 ELSE SetMax(Elems(deg)),
                 clustering_lcc_none |-> ~lccBig,
                 max_kcore_none |-> ~hasLcc,
                 avg_path_lcc |-> dist.res.avg_path_lcc,
                 diameter_lcc |-> dist.res.diameter_lcc,
                 leiden_modularity_lcc_none |-> ~(installed /\ lccBig),
                 leiden_n_comm_lcc_none |-> ~(installed /\ lccBig),
                 top_relationTypes |-> TopTypes(ed)],
             rng |-> dist.rng]
        LccBig(hasLcc, lcc) == hasLcc /\ VCount(lcc) > 2 /\ ECount(lcc) > 0
        OnSizes(gr, n, m, comp_sizes) ==
            Snapshot(n, m, Degree(gr), comp_sizes,
                     IF comp_sizes = <<>> THEN 0
                     ELSE SetMax(Elems(comp_sizes)),
                     n > 0 /\ m > 0,
                     LccBig(n > 0 /\ m > 0, Giant(gr)),
                     ApproxDistancesOnLcc(gr, DistSamples, DefaultSeed, st,
                                          draws))
        OnGraph(gr) == OnSizes(gr, VCount(gr), ECount(gr), CompSizes(gr))
    IN  OnGraph(ToIgraph(nd, ed))

----------------------------------------------------------------------------
\* The benchmark run: benchmark_lemma_graph.main

\* Frames as load_lemma_graph returns them: lemma, source and target are
\* strings, weight is a number, relationTypes a list (default []),
\* relationTypeCounts a dict or None (default None).
Row(s, t, w, types, counts) ==
    [source |-> s, target |-> t, weight |-> w, relationTypes |-> types,
     relationTypeCounts |-> counts]

NodeTables ==
    { <<"a", "b", "c", "d">>,
      <<"d", "c", "b", "a">>,
      <<"a", "b", "c">>,
      <<"a", "b", "a">>,
      <<"a", "b">>,
      <<"a">> }

EdgeRows ==
    << Row("a", "b", 1, <<"HYPERNYM">>, NoCounts),
       Row("b", "c", 1, <<"HYPERNYM">>, NoCounts),
       Row("c", "d", 1, <<"ANTONYM">>, NoCounts),
       Row("a", "b", 1, <<"HYPERNYM">>, Counts([HYPERNYM |-> 1])),
       Row("b", "c", 1, <<"HYPERNYM">>, Counts([HYPERNYM |-> 1])),
       Row("c", "d", 1, <<"ANTONYM">>, Counts([ANTONYM |-> 1])),
       Row("b", "a", 2, <<"ANTONYM", "HYPERNYM">>,
           Counts([ANTONYM |-> 1, HYPERNYM |-> 1])),
       Row("a", "a", 1, <<"HYPERNYM">>, NoCounts),
       Row("a", "c", 3, <<>>, NoCounts),
       Row("a", "z", 1, <<"HYPERNYM">>, NoCounts),
       Row("b", "d", 2, <<"HYPERNYM", "ANTONYM">>, NoCounts) >>

\* the edge frames of the model: 1 to MaxEdges rows of EdgeRows, in order
\* (load_lemma_graph raises ValueError on an empty edge list, whose frame
\* has no source column)
EdgeTables ==
    { [k \in 1..Cardinality(S) |-> EdgeRows[SetToSeq(S)[k]]] :
        S \in {T \in SUBSET DOMAIN EdgeRows :
                 Cardinality(T) >= 1 /\ Cardinality(T) <= MaxEdges} }

\* the scenarios of main, lines 356-378
ScenarioList ==
    << Scenario("baseline", 0, {}, NoFrac),
       Scenario("weight", 2, {}, NoFrac),
       Scenario("weight", 3, {}, NoFrac),
       Scenario("remove", 0, {"ANTONYM"}, NoFrac),
       Scenario("remove", 0, {"DERIVATION"}, NoFrac),
       Scenario("remove", 0, {"PERTAINYM"}, NoFrac),
       Scenario("remove", 0,
                {"HYPERNYM", "HYPONYM", "INSTANCE_HYPERNYM",
                 "INSTANCE_HYPONYM"}, NoFrac),
       Scenario("remove", 0,
                {"PART_MERONYM", "MEMBER_MERONYM", "SUBSTANCE_MERONYM",
                 "PART_HOLONYM", "MEMBER_HOLONYM", "SUBSTANCE_HOLONYM"},
                NoFrac),
       Scenario("drop", 0, {}, <<1, 1000>>),
       Scenario("drop", 0, {}, <<1, 200>>) >>

\* Scenarios the factories make from arguments main does not give them: the
\* threshold 0, one label of a group, fractions that round differently on
\* the node frames of the model
FactoryScenarios ==
    {Scenario("weight", 0, {}, NoFrac),
     Scenario("remove", 0, {"HYPERNYM"}, NoFrac)}
    \cup {Scenario("drop", 0, {}, f) : f \in {<<1, 2>>, <<2, 3>>, <<1, 1>>}}

\* the baseline followed by one of them
FactoryLists ==
    {<<Scenario("baseline", 0, {}, NoFrac), sc>> : sc \in FactoryScenarios}

NoScenario == Scenario("none", 0, {}, NoFrac)
EmptyGraph == [n |-> 0, id |-> <<>>, es |-> <<>>]

\* main after load_lemma_graph (line 354) has returned the frames
FramesInit ==
    /\ nodes \in NodeTables
    /\ edges \in EdgeTables
    /\ nodes0 = nodes
    /\ edges0 = edges
    /\ done = 0
    /\ n2 = <<>>
    /\ e2 = <<>>
    /\ g = EmptyGraph
    /\ report = <<>>
    /\ rng \in {0, RngMod - 1}

\* with leidenalg installed or not
BenchInit ==
    /\ FramesInit
    /\ scenarios = ScenarioList
    /\ la_installed \in BOOLEAN

\* the loop of main over the baseline and a scenario of FactoryScenarios,
\* without leidenalg
ScenarioInit ==
    /\ FramesInit
    /\ scenarios \in FactoryLists
    /\ la_installed = FALSE

\* one iteration of the loop over the scenarios (lines 388-404).
\* compute_metrics and top_bridges_betweenness_approx both seed the
\* generator with 123 and sample the vertices of the same giant component,
\* so the second draws what the first drew.
RunScenario(sc) ==
    LET Entry(r, gr, m, b) ==
            /\ nodes' = r.nIn
            /\ edges' = r.eIn
            /\ done' = done + 1
            /\ n2' = r.n
            /\ e2' = r.e
            /\ g' = gr
            /\ report' = Append(report,
                            [scenario |-> sc, metrics |-> m.met,
                             top_hubs_degree |-> TopDegree(gr, HubsK),
                             top_bridges_betweenness_approx |-> b.res])
            /\ rng' = b.rng
        OnMetrics(r, gr, m, d) ==
            Entry(r, gr, m,
                  TopBridgesBetweennessApprox(gr, BridgesK, BridgeSample,
                                              DefaultSeed, m.rng, d))
        OnDraws(r, gr, d) ==
            OnMetrics(r, gr, ComputeMetrics(r.n, r.e, rng, la_installed, d),
                      IF BridgeDraws(gr, BridgeSample) = {<<>>} THEN <<>>
                      ELSE d)
        OnGraph(r, gr) ==
            \E d \in DistDraws(gr, DistSamples) : OnDraws(r, gr, d)
        OnFrames(r) == OnGraph(r, ToIgraph(r.n, r.e))
    IN  /\ OnFrames(Transform(sc, nodes, edges))
        /\ UNCHANGED <<nodes0, edges0, scenarios, clusterVars, sampleVars, fetchVars,
                       loadVars>>

NextIs(kind) == done < Len(scenarios) /\ scenarios[done + 1].kind = kind

ApplyBaseline == NextIs("baseline") /\ RunScenario(scenarios[done + 1])
ApplyWeightGe == NextIs("weight") /\ RunScenario(scenarios[done + 1])
ApplyRemoveTypes == NextIs("remove") /\ RunScenario(scenarios[done + 1])
ApplyDropTopDegree == NextIs("drop") /\ RunScenario(scenarios[done + 1])

BenchNext ==
    \/ ApplyBaseline
    \/ ApplyWeightGe
    \/ ApplyRemoveTypes
    \/ ApplyDropTopDegree

----------------------------------------------------------------------------
\* The clustering run: compute_clusters.py

\* A JSON value of a node or link record: its Python type and its content.
\* "absent" stands for a key the record does not have.
Val(kind, str, int) == [kind |-> kind, s |-> str, n |-> int]
Absent == Val("absent", "", 0)
PyNone == Val("none", "", 0)
S(x) == Val("str", x, 0)
I(k) == Val("int", "", k)

\* str(v), for the values of the model (ints are 0..9)
Digits == <<"0", "1", "2", "3", "4", "5", "6", "7", "8", "9">>
PyStr(v) ==
    CASE v.kind = "str" -> v.s
      [] v.kind = "int" -> Digits[v.n + 1]
      [] OTHER -> "None"

\* bool(v)
Truthy(v) ==
    \/ v.kind = "str" /\ v.s # ""
    \/ v.kind = "int" /\ v.n # 0

\* a or b
Or(a, b) == IF Truthy(a) THEN a ELSE b

NodeRec(lemma, label, name, id) ==
    [lemma |-> lemma, label |-> label, name |-> name, id |-> id]
\* "f" in node, node.get("f")
Has(node, f) == node[f].kind # "absent"
Get(node, f) == IF Has(node, f) THEN node[f] ELSE PyNone
NotNone(node, f) == Has(node, f) /\ node[f].kind # "none"

\* canonical_id with label tried before lemma
CanonicalIdLabelFirst(node) ==
    IF NotNone(node, "label") THEN PyStr(node.label)
    ELSE IF NotNone(node, "lemma") THEN PyStr(node.lemma)
    ELSE IF NotNone(node, "name") THEN PyStr(node.name)
    ELSE PyStr(Get(node, "id"))

\* canonical_id
CanonicalId(node) ==
    IF NotNone(node, "lemma") THEN PyStr(node.lemma)
    ELSE IF NotNone(node, "label") THEN PyStr(node.label)
    ELSE IF NotNone(node, "name") THEN PyStr(node.name)
    ELSE PyStr(Get(node, "id"))

\* main, line 328: the key a node is filed under in id_map
OriginalId(node) ==
    PyStr(Or(Or(Or(Get(node, "id"), Get(node, "lemma")), Get(node, "label")),
             Get(node, "name")))

\* d[k] = v on a dict kept as a function
DictSet(d, k, v) == [x \in DOMAIN d \cup {k} |-> IF x = k THEN v ELSE d[x]]

\* main, lines 326-330
RECURSIVE BuildIdMapLoop(_, _)
BuildIdMapLoop(nds, acc) ==
    IF nds = <<>> THEN acc
    ELSE BuildIdMapLoop(Tail(nds),
                        DictSet(acc, OriginalId(Head(nds)), CanonicalId(Head(nds))))

BuildIdMap(nds) == BuildIdMapLoop(nds, EmptyDict)

\* id_map.get(s, s): an id without entry stands for itself
CanonicalFromRawIdDefault(raw_id, idm) ==
    LET s == PyStr(raw_id)
    IN  IF s \in DOMAIN idm THEN S(idm[s]) ELSE S(s)

\* canonical_from_raw_id: id_map.get(str(raw_id)), a str or None
CanonicalFromRawId(raw_id, idm) ==
    LET s == PyStr(raw_id)
    IN  IF s \in DOMAIN idm THEN S(idm[s]) ELSE PyNone

\* a dict in insertion order: a sequence of <<key, value>>
PairKeys(d) == {d[k][1] : k \in DOMAIN d}
PairGet(d, key, default) ==
    IF key \in PairKeys(d)
    THEN d[CHOOSE k \in DOMAIN d : d[k][1] = key][2]
    ELSE default
PairSet(d, key, v) ==
    IF key \in PairKeys(d)
    THEN [k \in DOMAIN d |-> IF d[k][1] = key THEN <<key, v>> ELSE d[k]]
    ELSE Append(d, <<key, v>>)

\* compute_degrees
RECURSIVE DegreeInit(_, _)
DegreeInit(nds, acc) ==
    IF nds = <<>> THEN acc
    ELSE DegreeInit(Tail(nds), PairSet(acc, CanonicalId(Head(nds)), 0))

RECURSIVE DegreeLoop(_, _, _)
DegreeLoop(links, idm, acc) ==
    IF links = <<>> THEN acc
    ELSE LET s == CanonicalFromRawId(Head(links).source, idm)
             t == CanonicalFromRawId(Head(links).target, idm)
         IN  IF s = PyNone \/ t = PyNone \/ s = t
             THEN DegreeLoop(Tail(links), idm, acc)
             ELSE LET a1 == PairSet(acc, s.s, PairGet(acc, s.s, 0) + 1)
                      a2 == PairSet(a1, t.s, PairGet(a1, t.s, 0) + 1)
                  IN  DegreeLoop(Tail(links), idm, a2)

ComputeDegrees(nds, links, idm) == DegreeLoop(links, idm, DegreeInit(nds, <<>>))

\* select_top_nodes_by_degree
SelectTopNodesByDegree(deg, maxn) ==
    LET order == SortedDesc(Len(deg), [k \in DOMAIN deg |-> deg[k][2]])
        items == IF ~maxn.none /\ Len(order) > maxn.v
                 THEN Take(order, maxn.v) ELSE order
    IN  [p \in DOMAIN items |-> deg[items[p]][1]]

\* build_igraph: the (i, j) pairs appended by the loop over the links
RECURSIVE IgraphEdges(_, _, _)
IgraphEdges(sel, links, idm) ==
    IF links = <<>> THEN <<>>
    ELSE LET s == CanonicalFromRawId(Head(links).source, idm)
             t == CanonicalFromRawId(Head(links).target, idm)
             rest == IgraphEdges(sel, Tail(links), idm)
         IN  IF s = PyNone \/ t = PyNone \/ s = t THEN rest
             ELSE IF s.s \notin Elems(sel) \/ t.s \notin Elems(sel) THEN rest
             ELSE IF Idx(sel, s.s) = Idx(sel, t.s) THEN rest
             ELSE <<[u |-> Idx(sel, s.s), v |-> Idx(sel, t.s)]>> \o rest

\* Graph.simplify(multiple=True, loops=True): one edge per unordered pair,
\* no loop; the edges that stay are listed by (smaller, larger) end
Simplify(gr) ==
    LET pairs == {<<Min2(gr.es[k].u, gr.es[k].v), Max2(gr.es[k].u, gr.es[k].v)>> :
                    k \in {j \in DOMAIN gr.es : gr.es[j].u # gr.es[j].v}}
        code == {p[1] * (gr.n + 1) + p[2] : p \in pairs}
        sorted == SetToSeq(code)
    IN  [gr EXCEPT !.es = [k \in DOMAIN sorted |->
                              [u |-> sorted[k] \div (gr.n + 1),
                               v |-> sorted[k] % (gr.n + 1)]]]

BuildIgraphNoSimplify(sel, links, idm) ==
    [n |-> Len(sel), name |-> sel, es |-> IgraphEdges(sel, links, idm)]

BuildIgraph(sel, links, idm) ==
    LET es == IgraphEdges(sel, links, idm)
        gr == [n |-> Len(sel), name |-> sel, es |-> es]
    IN  IF es # <<>> THEN Simplify(gr) ELSE gr

\* LEVELS: the configured levels, each with its resolution (a fraction)
LEVELS ==
    << [name |-> "supercluster", res |-> <<1, 10000>>],
       [name |-> "cluster", res |-> <<1, 100>>],
       [name |-> "galaxy", res |-> <<14, 100>>] >>

\* A cluster id. f"{level_name}_solo_{i}" and f"{level_name}_{comm_id}" are
\* kept as the triple the string is formatted from: no level name holds a
\* digit or ends in "_solo", so the formatting is one-to-one.
Cid(level, solo, idx) == [level |-> level, solo |-> solo, idx |-> idx]

\* a dict built by assigning the pairs in order
RECURSIVE PairsToDict(_, _)
PairsToDict(ps, acc) ==
    IF ps = <<>> THEN acc
    ELSE PairsToDict(Tail(ps), PairSet(acc, Head(ps)[1], Head(ps)[2]))

\* every node of the level filed under the one id f"{level_name}_solo_0"
SoloMappingShared(level_name, names) ==
    PairsToDict([i \in DOMAIN names |->
                    <<names[i], Cid(level_name, TRUE, 0)>>], <<>>)

\* line 161: {name: f"{level_name}_solo_{i}" for i, name in enumerate(names)}
SoloMapping(level_name, names) ==
    PairsToDict([i \in DOMAIN names |->
                    <<names[i], Cid(level_name, TRUE, i - 1)>>], <<>>)

\* lines 171-174: mapping[names[idx]] = f"{level_name}_{comm_id}"
LeidenMapping(level_name, names, membership) ==
    PairsToDict([i \in DOMAIN names |->
                    <<names[i], Cid(level_name, FALSE, membership[i])>>], <<>>)

\* a set of disjoint vertex sets as a list, in the order of smallest vertex
CommSeq(C) ==
    LET mins == SetToSeq({SetMin(c) : c \in C})
    IN  [k \in DOMAIN mins |-> CHOOSE c \in C : SetMin(c) = mins[k]]

\* part.membership: leidenalg numbers the communities from 0 by decreasing
\* size
Membership(gr, comms) ==
    LET order == SortedDesc(Len(comms),
                            [k \in DOMAIN comms |-> Cardinality(comms[k])])
    IN  [v \in 1..gr.n |->
            (CHOOSE p \in DOMAIN order : v \in comms[order[p]]) - 1]

\* la.find_partition(g, la.CPMVertexPartition, resolution_parameter=res) on
\* a graph with at least one edge. The optimiser is seeded at random; its
\* communities are connected. The outcomes kept are: one community per
\* component, one per vertex, and one per vertex but for the two ends of the
\* first edge.
FindPartition(gr) ==
    LET V == 1..gr.n
        e == gr.es[1]
        singles == {{v} : v \in V}
        merged == {{v} : v \in V \ {e.u, e.v}} \cup {{e.u, e.v}}
    IN  { Membership(gr, Components(gr)),
          Membership(gr, CommSeq(singles)),
          Membership(gr, CommSeq(merged)) }

\* run_leiden_levels(g); part[k] is what find_partition returns at level k.
\* The result is the dict level name -> mapping and the number of calls of
\* find_partition.
RunLeidenLevels(gr, part) ==
    IF ECount(gr) = 0
    THEN [res |-> [k \in DOMAIN LEVELS |->
                     <<LEVELS[k].name, SoloMapping(LEVELS[k].name, gr.name)>>],
          calls |-> 0]
    ELSE [res |-> [k \in DOMAIN LEVELS |->
                     <<LEVELS[k].name,
                       LeidenMapping(LEVELS[k].name, gr.name, part[k])>>],
          calls |-> Len(LEVELS)]

\* compute_cluster_layout, lines 207-209: cluster id -> its member list
RECURSIVE BucketsLoop(_, _)
BucketsLoop(items, acc) ==
    IF items = <<>> THEN acc
    ELSE BucketsLoop(Tail(items),
                     PairSet(acc, Head(items)[2],
                             Append(PairGet(acc, Head(items)[2], <<>>),
                                    Head(items)[1])))

\* buckets[cid] = [node_id] in place of buckets[cid].append(node_id)
BucketsLastOnly(cluster_map) ==
    PairsToDict([k \in DOMAIN cluster_map |->
                    <<cluster_map[k][2], <<cluster_map[k][1]>> >>], <<>>)

Buckets(cluster_map) == BucketsLoop(cluster_map, <<>>)

\* the order of two cluster ids of one level as strings (indices below 10):
\* "{level}_3" < "{level}_solo_0" since a digit sorts before "s"
CidBefore(a, b) == IF a.solo # b.solo THEN ~a.solo ELSE a.idx <= b.idx

\* tuple(sorted((c1, c2)))
SortedPair(c1, c2) == IF CidBefore(c1, c2) THEN <<c1, c2>> ELSE <<c2, c1>>

\* cluster_map.get(s): a cluster id or None
NoCid == Cid("", FALSE, 0 - 1)
ClusterOf(cluster_map, s) == PairGet(cluster_map, s, NoCid)

\* lines 221-237: edge_weights, a dict (c1, c2) -> number of links
RECURSIVE EdgeWeightsLoop(_, _, _, _)
EdgeWeightsLoop(links, idm, cluster_map, acc) ==
    IF links = <<>> THEN acc
    ELSE LET Count(c1, c2) ==
                 IF c1 = NoCid \/ c2 = NoCid \/ c1 = c2 THEN acc
                 ELSE PairSet(acc, SortedPair(c1, c2),
                              PairGet(acc, SortedPair(c1, c2), 0) + 1)
             Ends(s, t) ==
                 IF ~Truthy(s) \/ ~Truthy(t) \/ s = t THEN acc
                 ELSE Count(ClusterOf(cluster_map, s.s),
                            ClusterOf(cluster_map, t.s))
         IN  EdgeWeightsLoop(Tail(links), idm, cluster_map,
                             Ends(CanonicalFromRawId(Head(links).source, idm),
                                  CanonicalFromRawId(Head(links).target, idm)))

EdgeWeights(links, idm, cluster_map) ==
    EdgeWeightsLoop(links, idm, cluster_map, <<>>)

\* lines 211-249: the graph between the clusters
ClusterLayoutGraph(cluster_map, links, idm) ==
    LET Build(cluster_ids, ew) ==
            [n |-> Len(cluster_ids),
             name |-> cluster_ids,
             es |-> [k \in DOMAIN ew |->
                       [u |-> Idx(cluster_ids, ew[k][1][1]),
                        v |-> Idx(cluster_ids, ew[k][1][2]),
                        weight |-> ew[k][2]]]]
        Ids(buckets) == [k \in DOMAIN buckets |-> buckets[k][1]]
    IN  Build(Ids(Buckets(cluster_map)), EdgeWeights(links, idm, cluster_map))

\* A layout: the coordinates on each axis, as integers counted in a unit.
\* Two units are kept: "milli" (1e-3) for coordinates of ordinary size and
\* "tiny" (1e-10) for spreads around the 1e-9 threshold of norm.
Axis(scale, v) == [scale |-> scale, v |-> v]

\* g.layout_circle(): point i of n at angle 2*pi*i/n on the unit circle
\* (cosines and sines to the nearest 1e-3)
CirclePoints ==
    << << <<1000, 0>> >>,
       << <<1000, 0>>, <<0 - 1000, 0>> >>,
       << <<1000, 0>>, <<0 - 500, 866>>, <<0 - 500, 0 - 866>> >>,
       << <<1000, 0>>, <<0, 1000>>, <<0 - 1000, 0>>, <<0, 0 - 1000>> >> >>

LayoutCircle(n) ==
    [x |-> Axis("milli", [i \in 1..n |-> CirclePoints[n][i][1]]),
     y |-> Axis("milli", [i \in 1..n |-> CirclePoints[n][i][2]])]

\* g.layout_fruchterman_reingold(weights, niter=200): the starting
\* positions are random, so the result is one of many. Three are kept: a
\* line (no spread on y), a layout whose spread is below 1e-9 on x and from
\* 1e-9 on y, and an ordinary one.
FROutcomes == 1..3
LayoutFruchtermanReingold(n, fr) ==
    LET xs == << Axis("milli", <<0, 700, 0 - 300, 1500>>),
                 Axis("tiny", <<0, 5, 9, 3>>),
                 Axis("milli", <<0 - 250, 250, 0, 100>>) >>
        ys == << Axis("milli", <<0, 0, 0, 0>>),
                 Axis("tiny", <<0, 10, 4, 25>>),
                 Axis("milli", <<10, 0 - 40, 1000, 3>>) >>
    IN  [x |-> Axis(xs[fr].scale, Take(xs[fr].v, n)),
         y |-> Axis(ys[fr].scale, Take(ys[fr].v, n))]

\* vmax - vmin < 1e-9, for an extent counted in the unit of the axis
EpsTiny == 10
MilliPerUnit == 1000000
Degenerate(scale, extent) ==
    IF scale = "tiny" THEN extent < EpsTiny ELSE extent * MilliPerUnit < 1

\* norm with the factor 1000.0 in place of 2000.0
NormHalfRange(v, vmin, vmax, scale) ==
    IF Degenerate(scale, vmax - vmin) THEN Quot(0, 1)
    ELSE Quot((v - vmin) * 1000 - 1000 * (vmax - vmin), vmax - vmin)

\* norm(v, vmin, vmax), as an exact fraction
Norm(v, vmin, vmax, scale) ==
    IF Degenerate(scale, vmax - vmin) THEN Quot(0, 1)
    ELSE Quot((v - vmin) * 2000 - 1000 * (vmax - vmin), vmax - vmin)

\* lines 251-285, for the layout the library returned
ClusterPositions(buckets, layout) ==
    [k \in DOMAIN buckets |->
        << buckets[k][1],
           [x |-> Norm(layout.x.v[k], SetMin(Elems(layout.x.v)),
                       SetMax(Elems(layout.x.v)), layout.x.scale),
            y |-> Norm(layout.y.v[k], SetMin(Elems(layout.y.v)),
                       SetMax(Elems(layout.y.v)), layout.y.scale),
            size |-> Len(buckets[k][2]),
            members |-> buckets[k][2]] >>]

\* lines 251-260: the layout the library returns for the cluster graph
LibraryLayout(lg, fr) ==
    IF ECount(lg) > 0
    THEN LayoutFruchtermanReingold(VCount(lg), fr)
    ELSE LayoutCircle(VCount(lg))

\* compute_cluster_layout; fr is the outcome of the force-directed layout
ComputeClusterLayout(level_name, cluster_map, links, idm, fr) ==
    LET OnBuckets(buckets) ==
            IF buckets = <<>> THEN <<>>
            ELSE ClusterPositions(buckets,
                    LibraryLayout(ClusterLayoutGraph(cluster_map, links, idm),
                                  fr))
    IN  OnBuckets(Buckets(cluster_map))

\* the locals g and layout of compute_cluster_layout at each level; fr[k]
\* is the outcome of the force-directed layout of level k
LayoutTrace(lm, links, idm, fr) ==
    LET Of(lg, o) == [graph |-> lg, layout |-> LibraryLayout(lg, o)]
    IN  [k \in DOMAIN lm |->
            Of(ClusterLayoutGraph(lm[k][2], links, idm), fr[k])]

\* main, lines 356-364
AllClusterPositions(lm, links, idm, fr) ==
    [k \in DOMAIN lm |->
        <<lm[k][1],
          ComputeClusterLayout(lm[k][1], lm[k][2], links, idm, fr[k])>>]

\* The outcomes of the calls of layout_fruchterman_reingold that main's
\* loop makes: one per level whose cluster graph has an edge (line 251). A
\* level laid out on a circle makes no call; its entry is 1.
FRCalls(lm, links, idm) ==
    {fr \in [DOMAIN lm -> FROutcomes] :
        \A k \in DOMAIN lm :
            ECount(ClusterLayoutGraph(lm[k][2], links, idm)) = 0 => fr[k] = 1}

\* main, lines 367-381: the document written
NoOutput == [written |-> FALSE, clustered_nodes |-> 0, levels |-> <<>>,
             positions |-> <<>>]
Output(sel, lm, cp) ==
    [written |-> TRUE, clustered_nodes |-> Len(sel), levels |-> lm,
     positions |-> cp]

\* The inputs of the model
Link(s, t) == [source |-> s, target |-> t]

SingleNodeTables ==
    { <<NodeRec(l, b, m, i)>> :
        l \in {Absent, PyNone, S("a")}, b \in {Absent, PyNone, S("b")},
        m \in {Absent, PyNone, S("c")},
        i \in {Absent, PyNone, I(0), I(1), S("a")} }

LemmaOnly(x) == NodeRec(S(x), Absent, Absent, Absent)
WithId(x, i) == NodeRec(S(x), Absent, Absent, i)

MultiNodeTables ==
    { <<LemmaOnly("a"), LemmaOnly("b"), LemmaOnly("c")>>,
      <<WithId("a", I(1)), WithId("b", I(2)), WithId("c", I(3))>>,
      <<LemmaOnly("a"), NodeRec(Absent, S("a"), Absent, Absent), LemmaOnly("b")>>,
      <<LemmaOnly("a"), WithId("b", S("a"))>>,
      <<NodeRec(Absent, Absent, S("c"), Absent),
        NodeRec(Absent, Absent, Absent, I(1)), LemmaOnly("b"), LemmaOnly("a")>>,
      <<WithId("a", I(1)), WithId("a", I(2)), LemmaOnly("b")>> }

LinkRows ==
    << Link(S("a"), S("b")),
       Link(S("b"), S("a")),
       Link(S("a"), S("b")),
       Link(S("a"), S("a")),
       Link(S("b"), S("c")),
       Link(I(1), I(2)),
       Link(S("1"), S("a")),
       Link(S("a"), S("zz")),
       Link(S("c"), S("a")),
       Link(Absent, S("b")) >>

\* up to k records of LinkRows, in order
LinkTables(k) ==
    { [q \in 1..Cardinality(T) |-> LinkRows[SetToSeq(T)[q]]] :
        T \in {U \in SUBSET DOMAIN LinkRows : Cardinality(U) <= k} }

EmptyClusterGraph == [n |-> 0, name |-> <<>>, es |-> <<>>]

ClusterInit ==
    /\ \/ raw_nodes \in SingleNodeTables /\ raw_links \in LinkTables(1)
       \/ raw_nodes \in MultiNodeTables /\ raw_links \in LinkTables(MaxLinks)
    /\ max_nodes \in {NoneInt, SomeInt(2)}
    /\ id_map = EmptyDict
    /\ degree = <<>>
    /\ selected_ids = <<>>
    /\ cg = EmptyClusterGraph
    /\ pc = "start"
    /\ la_installed \in BOOLEAN
    /\ la_calls = 0
    /\ levels_mapping = <<>>
    /\ cluster_positions = <<>>
    /\ layout_trace = <<>>
    /\ output = NoOutput

\* line 24: `import leidenalg as la` raises ImportError when the package is
\* not installed, before main is entered
CImportError ==
    /\ pc = "start"
    /\ ~la_installed
    /\ pc' = "import_error"
    /\ UNCHANGED <<raw_nodes, raw_links, max_nodes, id_map, degree,
                   selected_ids, cg, la_installed, lateVars>>
    /\ UNCHANGED <<benchVars, sampleVars, fetchVars, loadVars, rng>>

\* main, lines 325-330
CBuildIdMap ==
    /\ pc = "start"
    /\ la_installed
    /\ id_map' = BuildIdMap(raw_nodes)
    /\ pc' = "idmap"
    /\ UNCHANGED <<raw_nodes, raw_links, max_nodes, degree, selected_ids, cg>>
    /\ UNCHANGED <<la_installed, lateVars, benchVars, sampleVars, fetchVars, loadVars, rng>>

\* main, line 334
\* link["source"], link["target"]: KeyError on a link without the key
LinkKeyError(links) ==
    \E k \in DOMAIN links :
        links[k].source.kind = "absent" \/ links[k].target.kind = "absent"

CComputeDegrees ==
    /\ pc = "idmap"
    /\ IF LinkKeyError(raw_links)
       THEN degree' = degree /\ pc' = "key_error"
       ELSE /\ degree' = ComputeDegrees(raw_nodes, raw_links, id_map)
            /\ pc' = "degrees"
    /\ UNCHANGED <<raw_nodes, raw_links, max_nodes, id_map, selected_ids, cg>>
    /\ UNCHANGED <<la_installed, lateVars, benchVars, sampleVars, fetchVars, loadVars, rng>>

\* main, line 342
CSelectTopNodes ==
    /\ pc = "degrees"
    /\ selected_ids' = SelectTopNodesByDegree(degree, max_nodes)
    /\ pc' = "selected"
    /\ UNCHANGED <<raw_nodes, raw_links, max_nodes, id_map, degree, cg>>
    /\ UNCHANGED <<la_installed, lateVars, benchVars, sampleVars, fetchVars, loadVars, rng>>

\* main, line 347
CBuildIgraph ==
    /\ pc = "selected"
    /\ cg' = BuildIgraph(selected_ids, raw_links, id_map)
    /\ pc' = "graph"
    /\ UNCHANGED <<raw_nodes, raw_links, max_nodes, id_map, degree, selected_ids>>
    /\ UNCHANGED <<la_installed, lateVars, benchVars, sampleVars, fetchVars, loadVars, rng>>

\* main, line 352; part is what find_partition returns at each level
CRunLeidenLevels ==
    /\ pc = "graph"
    /\ \E part \in IF ECount(cg) = 0 THEN {[k \in DOMAIN LEVELS |-> <<>>]}
                   ELSE [DOMAIN LEVELS -> FindPartition(cg)] :
          /\ levels_mapping' = RunLeidenLevels(cg, part).res
          /\ la_calls' = la_calls + RunLeidenLevels(cg, part).calls
    /\ pc' = "levels"
    /\ UNCHANGED <<raw_nodes, raw_links, max_nodes, id_map, degree,
                   selected_ids, cg, la_installed, cluster_positions,
                   layout_trace, output>>
    /\ UNCHANGED <<benchVars, sampleVars, fetchVars, loadVars, rng>>

\* main, lines 356-364: one call of compute_cluster_layout per level, each
\* with its own outcome fr[k] of the force-directed layout
CComputeClusterLayouts ==
    /\ pc = "levels"
    /\ \E fr \in FRCalls(levels_mapping, raw_links, id_map) :
          /\ cluster_positions' =
                AllClusterPositions(levels_mapping, raw_links, id_map, fr)
          /\ layout_trace' = LayoutTrace(levels_mapping, raw_links, id_map, fr)
    /\ pc' = "layouts"
    /\ UNCHANGED <<raw_nodes, raw_links, max_nodes, id_map, degree,
                   selected_ids, cg, la_installed, la_calls, levels_mapping,
                   output>>
    /\ UNCHANGED <<benchVars, sampleVars, fetchVars, loadVars, rng>>

\* main, lines 367-381
CWriteOutput ==
    /\ pc = "layouts"
    /\ output' = Output(selected_ids, levels_mapping, cluster_positions)
    /\ pc' = "written"
    /\ UNCHANGED <<raw_nodes, raw_links, max_nodes, id_map, degree,
                   selected_ids, cg, la_installed, la_calls, levels_mapping,
                   cluster_positions, layout_trace>>
    /\ UNCHANGED <<benchVars, sampleVars, fetchVars, loadVars, rng>>

ClusterNext ==
    \/ CImportError
    \/ CBuildIdMap
    \/ CComputeDegrees
    \/ CSelectTopNodes
    \/ CBuildIgraph
    \/ CRunLeidenLevels
    \/ CComputeClusterLayouts
    \/ CWriteOutput

----------------------------------------------------------------------------
\* Two invocations of a sampled metric with the same graph, seed and sample
\* size, with other uses of the module generator before each of them.

Plain(s, t) == Row(s, t, 1, <<>>, NoCounts)

SampleGraphs ==
    { ToIgraph(<<"a", "b", "c", "d">>,
               <<Plain("a", "b"), Plain("b", "c"), Plain("c", "d")>>),
      ToIgraph(<<"a", "b", "c", "d", "e", "f">>,
               <<Plain("a", "b"), Plain("b", "c"), Plain("c", "d"),
                 Plain("d", "e"), Plain("e", "f")>>),
      ToIgraph(<<"a", "b", "c", "d", "e", "f">>,
               <<Plain("a", "b"), Plain("a", "c"), Plain("a", "d"),
                 Plain("a", "e"), Plain("e", "f")>>),
      ToIgraph(<<"a", "b", "c", "d", "e", "f", "h">>,
               <<Plain("a", "b"), Plain("b", "c"), Plain("c", "d"),
                 Plain("d", "e"), Plain("e", "a"), Plain("f", "h")>>) }

Seeds == {DefaultSeed, 7}

\* the arguments of the two invocations: the function, its sample size, its
\* seed
CallArgs ==
    [fn : {"approx_distances_on_lcc"}, samples : {1, 2, DistSamples},
     seed : Seeds]
    \cup [fn : {"top_bridges_betweenness_approx"}, samples : {3}, seed : Seeds]

NoResult == [dist |-> DistUndefined, bridges |-> <<>>]
\* an invocation as the run records it: the generator state it found, the
\* state its sample was drawn from, the values drawn, its result
NoCall ==
    [made |-> FALSE, found |-> 0, at |-> 0, draws |-> <<>>, res |-> NoResult]

\* the invocation, from the generator state st, its draws returning draws:
\* its result and the state the generator is left in
Invoke(a, gr, st, draws) ==
    LET Dist(r) == [res |-> [dist |-> r.res, bridges |-> <<>>], rng |-> r.rng]
        Bridges(r) ==
            [res |-> [dist |-> DistUndefined, bridges |-> r.res],
             rng |-> r.rng]
    IN  IF a.fn = "approx_distances_on_lcc"
        THEN Dist(ApproxDistancesOnLcc(gr, a.samples, a.seed, st, draws))
        ELSE Bridges(TopBridgesBetweennessApprox(gr, BridgesK, a.samples,
                                                 a.seed, st, draws))

\* the values the draws of the invocation can take
InvokeDraws(a, gr) ==
    IF a.fn = "approx_distances_on_lcc" THEN DistDraws(gr, a.samples)
    ELSE BridgeDraws(gr, a.samples)

\* the invocations of the model: those whose draws can take at most
\* MaxDraws sequences of values
SampleInit ==
    /\ sg \in SampleGraphs
    /\ args \in CallArgs
    /\ Cardinality(InvokeDraws(args, sg)) <= MaxDraws
    /\ ref = NoCall
    /\ last = NoCall
    /\ rng \in RngStates

\* another seeded call: random.seed(x)
OtherSeed ==
    /\ ~last.made
    /\ \E x \in Seeds \cup {0} : rng' = RandomSeed(x)
    /\ UNCHANGED <<sg, args, ref, last, benchVars, clusterVars,
                 loadVars, fetchVars>>

\* another unseeded call: one draw
OtherDraw ==
    /\ ~last.made
    /\ rng' = RngStep(rng)
    /\ UNCHANGED <<sg, args, ref, last, benchVars, clusterVars,
                 loadVars, fetchVars>>

FirstInvocation ==
    LET Record(r, d) ==
            /\ ref' = [made |-> TRUE, found |-> rng,
                       at |-> SeedGenerator(args.seed, rng), draws |-> d,
                       res |-> r.res]
            /\ rng' = r.rng
    IN  /\ ~ref.made
        /\ \E d \in InvokeDraws(args, sg) :
              Record(Invoke(args, sg, rng, d), d)
        /\ UNCHANGED <<sg, args, last, benchVars, clusterVars,
                 loadVars, fetchVars>>

\* The generator gives from one state the values it gave before: the second
\* invocation draws what the first drew when its sample is drawn from the
\* same state, and any values otherwise.
SecondInvocation ==
    LET Record(r, d) ==
            /\ last' = [made |-> TRUE, found |-> rng,
                        at |-> SeedGenerator(args.seed, rng), draws |-> d,
                        res |-> r.res]
            /\ rng' = r.rng
    IN  /\ ref.made /\ ~last.made
        /\ \E d \in (IF SeedGenerator(args.seed, rng) = ref.at
                     THEN {ref.draws} ELSE InvokeDraws(args, sg)) :
              Record(Invoke(args, sg, rng, d), d)
        /\ UNCHANGED <<sg, args, ref, benchVars, clusterVars,
                 loadVars, fetchVars>>

SampleNext ==
    \/ OtherSeed
    \/ OtherDraw
    \/ FirstInvocation
    \/ SecondInvocation

----------------------------------------------------------------------------
\* Reading the input document: load_lemma_graph and the head of
\* compute_clusters.main

\* The JSON document: the node list and, under each of the keys "links" and
\* "edges", either nothing or a list of link records.
NoKey == [present |-> FALSE, rows |-> <<>>]
Key(rows) == [present |-> TRUE, rows |-> rows]
Doc(nd, links, edgs) == [nodes |-> nd, links |-> links, edges |-> edgs]
NoDoc == Doc(<<>>, NoKey, NoKey)

\* "f" in pd.DataFrame(records).columns: the columns of a frame built from a
\* list of dicts are the keys found in the records; the frame of an empty
\* list has no column.
HasColumn(records, f) == \E k \in DOMAIN records : Has(records[k], f)

LoadError(kind) == [status |-> kind, nodes |-> <<>>, edges |-> <<>>]

\* load_lemma_graph: raw["edges"] raises KeyError on a document without the
\* key; the column checks raise ValueError; weight, relationTypes and
\* relationTypeCounts get their defaults; lemma, source and target are
\* converted with astype(str).
LoadLemmaGraph(d) ==
    IF ~d.edges.present THEN LoadError("KeyError")
    ELSE IF ~HasColumn(d.nodes, "lemma") THEN LoadError("ValueError")
    ELSE IF ~HasColumn(d.edges.rows, "source")
            \/ ~HasColumn(d.edges.rows, "target")
    THEN LoadError("ValueError")
    ELSE [status |-> "ok",
          nodes |-> [k \in DOMAIN d.nodes |-> PyStr(d.nodes[k].lemma)],
          edges |-> [k \in DOMAIN d.edges.rows |->
                        Row(PyStr(d.edges.rows[k].source),
                            PyStr(d.edges.rows[k].target), 1, <<>>,
                            NoCounts)]]

\* compute_clusters.main, line 320:
\* data.get("links") or data.get("edges") or []
ClusterLinks(d) ==
    IF d.links.present /\ d.links.rows # <<>> THEN d.links.rows
    ELSE IF d.edges.present /\ d.edges.rows # <<>> THEN d.edges.rows
    ELSE <<>>

\* The documents of the model: every field of a record is a string or is
\* missing from all the records of its list.
DocNodeTables ==
    { <<LemmaOnly("a"), LemmaOnly("b"), LemmaOnly("c")>>,
      <<LemmaOnly("a"), LemmaOnly("b")>>,
      <<LemmaOnly("a")>>,
      <<NodeRec(Absent, S("a"), Absent, Absent)>> }

DocLinkTables ==
    { <<>>,
      <<Link(S("a"), S("b"))>>,
      <<Link(S("a"), S("b")), Link(S("b"), S("a"))>>,
      <<Link(S("a"), S("b")), Link(S("b"), S("c"))>>,
      <<Link(S("a"), S("a"))>>,
      <<Link(S("a"), S("zz"))>> }

DocKeys == {NoKey} \cup {Key(rows) : rows \in DocLinkTables}
Docs == {Doc(nd, l, e) : nd \in DocNodeTables, l \in DocKeys, e \in DocKeys}

LoadInit ==
    /\ doc \in Docs
    /\ bpc = "start"
    /\ nodes = <<>> /\ edges = <<>> /\ nodes0 = <<>> /\ edges0 = <<>>
    /\ scenarios = <<>> /\ done = 0 /\ n2 = <<>> /\ e2 = <<>>
    /\ g = EmptyGraph /\ report = <<>> /\ rng = 0
    /\ raw_nodes = <<>> /\ raw_links = <<>> /\ max_nodes = NoneInt
    /\ id_map = EmptyDict /\ degree = <<>> /\ selected_ids = <<>>
    /\ cg = EmptyClusterGraph /\ pc = "idle"
    /\ la_installed = TRUE /\ la_calls = 0 /\ levels_mapping = <<>>
    /\ cluster_positions = <<>> /\ layout_trace = <<>> /\ output = NoOutput

\* benchmark_lemma_graph.main, line 355 and the scenario list of lines
\* 357-380: an exception of load_lemma_graph ends the run
BLoadLemmaGraph ==
    LET Loaded(r) ==
            /\ bpc' = IF r.status = "ok" THEN "loaded" ELSE r.status
            /\ nodes' = r.nodes
            /\ edges' = r.edges
            /\ nodes0' = r.nodes
            /\ edges0' = r.edges
            /\ scenarios' = IF r.status = "ok" THEN ScenarioList ELSE <<>>
    IN  /\ bpc = "start"
        /\ Loaded(LoadLemmaGraph(doc))
        /\ UNCHANGED <<doc, done, n2, e2, g, report, rng, clusterVars,
                       sampleVars, fetchVars>>

\* benchmark_lemma_graph.main, lines 406-411: the CSV and the JSON report are
\* written after the last scenario
BWriteReport ==
    /\ bpc = "loaded"
    /\ done = Len(scenarios)
    /\ bpc' = "written"
    /\ UNCHANGED <<doc, benchVars, clusterVars, sampleVars, fetchVars, rng>>

\* compute_clusters.main, lines 317-320
CLoadGraph ==
    /\ pc = "idle"
    /\ doc # NoDoc
    /\ raw_nodes' = doc.nodes
    /\ raw_links' = ClusterLinks(doc)
    /\ pc' = "start"
    /\ UNCHANGED <<max_nodes, id_map, degree, selected_ids, cg,
                   la_installed, lateVars>>
    /\ UNCHANGED <<benchVars, sampleVars, fetchVars, loadVars, rng>>

LoadNext ==
    \/ BLoadLemmaGraph
    \/ ApplyBaseline
    \/ ApplyWeightGe
    \/ ApplyRemoveTypes
    \/ ApplyDropTopDegree
    \/ BWriteReport
    \/ CLoadGraph
    \/ CBuildIdMap
    \/ CComputeDegrees
    \/ CSelectTopNodes
    \/ CBuildIgraph

----------------------------------------------------------------------------
\* The query to Wikidata: fetch_wikidata_etymology.sparql_query

DefaultMaxRetries == 5
\* the values of max_retries the model calls sparql_query with; the callers
\* (lines 239 and 304) leave it at its default
RetryCounts == {1, 2, 3, DefaultMaxRetries}

\* What one session.get and the lines after it can meet:
\*   "ok"          a 2xx response whose body parses (r.json() returns body)
\*   "429"         status 429; retry_after is the Retry-After header:
\*                 "absent";
\*                 "number": float() parses it and time.sleep accepts it
\*                 (a finite wait >= 0);
\*                 "negative": float() parses it and time.sleep raises
\*                 ValueError (-1, -0.5, nan);
\*                 "overflow": float() parses it and time.sleep raises
\*                 OverflowError (inf, 1e400);
\*                 "date": float() raises ValueError
\*   "ConnectionError"  session.get raises
\*   "HTTPError"        r.raise_for_status() raises
\*   "JSONDecodeError"  r.json() raises
Answer(kind, body, retry_after) ==
    [kind |-> kind, body |-> body, retry_after |-> retry_after]
Answers ==
    { Answer("ok", b, "absent") : b \in {"body1", "body2"} }
    \cup { Answer("429", "", h) :
             h \in {"absent", "number", "negative", "overflow", "date"} }
    \cup { Answer(k, "", "absent") :
             k \in {"ConnectionError", "HTTPError", "JSONDecodeError"} }

\* the exception the try block raises on an answer, "" when it raises
\* none: on status 429 float(...) at line 89 or time.sleep(wait) at line 90
\* can raise, before anything is slept
Raised(a) ==
    IF a.kind = "429"
    THEN (CASE a.retry_after \in {"date", "negative"} -> "ValueError"
            [] a.retry_after = "overflow" -> "OverflowError"
            [] OTHER -> "")
    ELSE IF a.kind = "ok" THEN "" ELSE a.kind

\* an argument of time.sleep: the Retry-After header or 2.0 * 1.7^k
Sleep(from, k) == [from |-> from, k |-> k]

NoOutcome == [kind |-> "none", body |-> "", error |-> "", attempt |-> 0]
Returned(b) == [kind |-> "return", body |-> b, error |-> "", attempt |-> 0]
Raise(e, n) == [kind |-> "raise", body |-> "", error |-> e, attempt |-> n]

FetchInit ==
    /\ max_retries \in RetryCounts
    /\ attempt = 0
    /\ backoff = 0
    /\ sent = <<>>
    /\ slept = <<>>
    /\ spc = "call"
    /\ outcome = NoOutcome

FetchOthersIdle ==
    UNCHANGED <<benchVars, clusterVars, sampleVars, loadVars, rng>>

\* lines 78-84: headers, backoff = 2.0 and the loop head; with
\* max_retries < 1 the loop body never runs and line 102 raises
SqEnter ==
    /\ spc = "call"
    /\ spc' = IF max_retries < 1 THEN "done" ELSE "loop"
    /\ outcome' = IF max_retries < 1 THEN Raise("RuntimeError", 0)
                  ELSE outcome
    /\ UNCHANGED <<max_retries, attempt, backoff, sent, slept>>
    /\ FetchOthersIdle

\* lines 85-94, a response that parses: return r.json()
SqReturn ==
    /\ spc = "loop"
    /\ \E a \in Answers :
          /\ a.kind = "ok"
          /\ sent' = Append(sent, a)
          /\ outcome' = Returned(a.body)
    /\ attempt' = attempt + 1
    /\ spc' = "done"
    /\ UNCHANGED <<max_retries, backoff, slept>>
    /\ FetchOthersIdle

\* lines 88-92, status 429 with a usable wait: sleep, backoff *= 1.7,
\* continue; after the last attempt the loop ends and line 102 raises
SqTooManyRequests ==
    /\ spc = "loop"
    /\ \E a \in Answers :
          /\ a.kind = "429"
          /\ Raised(a) = ""
          /\ sent' = Append(sent, a)
          /\ slept' = Append(slept,
                             IF a.retry_after = "number"
                             THEN Sleep("Retry-After", 0)
                             ELSE Sleep("backoff", backoff))
    /\ backoff' = backoff + 1
    /\ attempt' = attempt + 1
    /\ spc' = IF attempt + 1 = max_retries THEN "done" ELSE "loop"
    /\ outcome' = IF attempt + 1 = max_retries
                  THEN Raise("RuntimeError", 0) ELSE outcome
    /\ UNCHANGED max_retries
    /\ FetchOthersIdle

\* lines 96-100, an exception in the try block: re-raised on the last
\* attempt, otherwise sleep(backoff), backoff *= 1.7 and the next attempt
SqException ==
    /\ spc = "loop"
    /\ \E a \in Answers :
          /\ Raised(a) # ""
          /\ sent' = Append(sent, a)
          /\ outcome' = IF attempt + 1 = max_retries
                        THEN Raise(Raised(a), attempt + 1) ELSE outcome
    /\ attempt' = attempt + 1
    /\ spc' = IF attempt + 1 = max_retries THEN "done" ELSE "loop"
    /\ slept' = IF attempt + 1 = max_retries THEN slept
                ELSE Append(slept, Sleep("backoff", backoff))
    /\ backoff' = IF attempt + 1 = max_retries THEN backoff ELSE backoff + 1
    /\ UNCHANGED max_retries
    /\ FetchOthersIdle

FetchNext ==
    \/ SqEnter
    \/ SqReturn
    \/ SqTooManyRequests
    \/ SqException

----------------------------------------------------------------------------
\* The specifications. Each run leaves the variables of the others idle.

BenchIdle ==
    /\ nodes = <<>> /\ edges = <<>> /\ nodes0 = <<>> /\ edges0 = <<>>
    /\ scenarios = <<>> /\ done = 0 /\ n2 = <<>> /\ e2 = <<>>
    /\ g = EmptyGraph /\ report = <<>>

ClusterIdle ==
    /\ raw_nodes = <<>> /\ raw_links = <<>> /\ max_nodes = NoneInt
    /\ id_map = EmptyDict /\ degree = <<>> /\ selected_ids = <<>>
    /\ cg = EmptyClusterGraph /\ pc = "idle"
    /\ la_calls = 0 /\ levels_mapping = <<>>
    /\ cluster_positions = <<>> /\ layout_trace = <<>> /\ output = NoOutput

NoArgs == [fn |-> "none", samples |-> 0, seed |-> 0]
SampleIdle == sg = EmptyGraph /\ args = NoArgs /\ ref = NoCall /\ last = NoCall
LoadIdle == doc = NoDoc /\ bpc = "idle"
FetchIdle ==
    /\ max_retries = 0 /\ attempt = 0 /\ backoff = 0 /\ sent = <<>>
    /\ slept = <<>> /\ spc = "idle" /\ outcome = NoOutcome

\* the benchmark run
Init ==
    /\ BenchInit /\ ClusterIdle /\ SampleIdle /\ FetchIdle
    /\ doc = NoDoc /\ bpc = "loaded"
Next == BenchNext
Spec == Init /\ [][Next]_vars

\* the scenario factories with other arguments
InitScenario ==
    /\ ScenarioInit /\ ClusterIdle /\ SampleIdle /\ FetchIdle
    /\ doc = NoDoc /\ bpc = "loaded"
SpecScenario == InitScenario /\ [][Next]_vars

\* the clustering run
InitCluster ==
    ClusterInit /\ BenchIdle /\ SampleIdle /\ LoadIdle /\ FetchIdle /\ rng = 0
SpecCluster == InitCluster /\ [][ClusterNext]_vars

\* the two invocations of a sampled metric
InitSample ==
    /\ SampleInit /\ BenchIdle /\ ClusterIdle /\ LoadIdle /\ FetchIdle
    /\ la_installed = FALSE
SpecSample == InitSample /\ [][SampleNext]_vars

\* the two programs reading one document
InitLoad == LoadInit /\ SampleIdle /\ FetchIdle
SpecLoad == InitLoad /\ [][LoadNext]_vars

\* one call of sparql_query
InitFetch ==
    /\ FetchInit /\ BenchIdle /\ ClusterIdle /\ SampleIdle /\ LoadIdle
    /\ rng = 0 /\ la_installed = FALSE
SpecFetch == InitFetch /\ [][FetchNext]_vars

----------------------------------------------------------------------------
\* Properties of the benchmark run

SimpleGraph(gr) ==
    /\ \A k \in DOMAIN gr.es : gr.es[k].u # gr.es[k].v
    /\ \A k, l \in DOMAIN gr.es :
          k # l => {gr.es[k].u, gr.es[k].v} # {gr.es[l].u, gr.es[l].v}

Entries(kind) == {j \in DOMAIN report : report[j].scenario.kind = kind}

\* C2: the graph to_igraph builds for a scenario, on which its metrics and
\* rankings are computed, has no self-loop and at most one edge per
\* unordered node pair.
C2_BenchGraphSimple == done > 0 => SimpleGraph(g)

\* the labels present on any edge of a frame, in relationTypes or as a key
\* of relationTypeCounts
PresentLabels(ed) ==
    UNION {Elems(ed[k].relationTypes) \cup DOMAIN ed[k].relationTypeCounts.d :
             k \in DOMAIN ed}

IsNoOp(sc) ==
    \/ sc.kind = "weight" /\ sc.th = 0
    \/ sc.kind = "remove" /\ sc.remove \cap PresentLabels(edges0) = {}

\* C5: a no-op scenario (weight threshold 0, or removal of a label set
\* disjoint from every label present) yields the metrics snapshot of the
\* baseline scenario.
C5_NoOpEqualsBaseline ==
    \A i \in Entries("baseline") : \A j \in DOMAIN report :
        IsNoOp(report[j].scenario) => report[j].metrics = report[i].metrics

DropRan == done > 0 /\ scenarios[done].kind = "drop" /\ Len(nodes0) >= 1
Removed == Len(nodes0) - Len(n2)
CeilOf(n, f) == (n * f[1] + f[2] - 1) \div f[2]

\* C6: drop-top-degree-fraction(f) removes exactly max(1, ceil(f * n))
\* nodes from a graph of n >= 1 nodes.
C6_RemovesCeil ==
    DropRan =>
        Removed = Max2(1, CeilOf(Len(nodes0), scenarios[done].frac))

BaseDegree == Degree(ToIgraph(nodes0, edges0))
UniqueMaxDegree ==
    /\ Len(nodes0) >= 1
    /\ SetMax(Elems(BaseDegree)) >= 1
    /\ Cardinality({i \in DOMAIN BaseDegree :
                      BaseDegree[i] = SetMax(Elems(BaseDegree))}) = 1

\* C7: deg_max after drop-top-degree-fraction(f) is never greater than the
\* baseline's deg_max, and strictly smaller when the baseline graph has a
\* unique node of maximum degree >= 1.
C7_DegMaxReduced ==
    \A i \in Entries("baseline") : \A j \in Entries("drop") :
        /\ report[j].metrics.deg_max <= report[i].metrics.deg_max
        /\ UniqueMaxDegree =>
              report[j].metrics.deg_max < report[i].metrics.deg_max

C7_Witness ==
    /\ UniqueMaxDegree
    /\ \E i \in Entries("baseline") : \E j \in Entries("drop") :
          /\ report[j].metrics.deg_max < report[i].metrics.deg_max
          /\ report[j].metrics.n_edges > 0

\* C8: every scenario leaves the base frames as they were loaded, so the
\* derived frames of a scenario are those it yields on the loaded frames,
\* whatever ran before it.
C8_BaseUnchanged ==
    /\ nodes = nodes0
    /\ edges = edges0
    /\ done > 0 =>
          LET t == Transform(scenarios[done], nodes0, edges0)
          IN  n2 = t.n /\ e2 = t.e

C8_Witness ==
    /\ done = Len(scenarios)
    /\ nodes = nodes0 /\ edges = edges0
    /\ \E j \in 1..(done - 1) :
          /\ scenarios[j].kind = "remove"
          /\ RemoveTypesAssigned(scenarios[j].remove, edges0) # edges0
    /\ e2 # edges0

\* the end-to-end example: nodes {a,b,c,d}, edges (a,b,HYPERNYM),
\* (b,c,HYPERNYM), (c,d,ANTONYM) of weight 1, each with or without counts
ExampleInput ==
    /\ nodes0 = <<"a", "b", "c", "d">>
    /\ Len(edges0) = 3
    /\ \A k \in 1..3 : edges0[k].weight = 1
    /\ <<edges0[1].source, edges0[1].target>> = <<"a", "b">>
    /\ <<edges0[2].source, edges0[2].target>> = <<"b", "c">>
    /\ <<edges0[3].source, edges0[3].target>> = <<"c", "d">>
    /\ edges0[1].relationTypes = <<"HYPERNYM">>
    /\ edges0[2].relationTypes = <<"HYPERNYM">>
    /\ edges0[3].relationTypes = <<"ANTONYM">>

\* C9: on the example the baseline metrics are 4 nodes, 3 edges, 1
\* component, LCC size 4, 0 isolates; after remove-relation-types({ANTONYM})
\* edge (c,d) is gone and there are 2 components, LCC size 3, 1 isolate.
C9_Example ==
    ExampleInput =>
        \A j \in DOMAIN report :
            LET sc == report[j].scenario
                m == report[j].metrics
            IN  /\ sc.kind = "baseline" =>
                      /\ m.n_nodes = 4 /\ m.n_edges = 3
                      /\ m.n_components = 1 /\ m.lcc_size = 4
                      /\ m.isolates = 0
                /\ (sc.kind = "remove" /\ sc.remove = {"ANTONYM"}) =>
                      /\ m.n_nodes = 4 /\ m.n_edges = 2
                      /\ m.n_components = 2 /\ m.lcc_size = 3
                      /\ m.isolates = 1

C9_Witness ==
    /\ ExampleInput
    /\ \A k \in 1..3 : edges0[k].relationTypeCounts.isdict
    /\ done = Len(scenarios)
    /\ \E j \in DOMAIN report :
          /\ report[j].scenario.kind = "remove"
          /\ report[j].scenario.remove = {"ANTONYM"}
          /\ report[j].metrics.n_components = 2

\* the rows of a frame that to_igraph turns into an edge between the
\* vertices i and j
RowsBetween(nd, ed, i, j) ==
    {r \in DOMAIN ed :
        /\ ed[r].source \in Elems(nd) /\ ed[r].target \in Elems(nd)
        /\ {Idx(nd, ed[r].source), Idx(nd, ed[r].target)} = {i, j}}

\* C19: when several rows resolve to one unordered pair of distinct nodes,
\* the built graph keeps a single edge for the pair, whose weight is the sum
\* of the rows' weights and whose relation types are the union of theirs.
C19_DuplicatesMerged ==
    done > 0 =>
        \A i, j \in 1..VCount(g) :
            (i < j /\ RowsBetween(n2, e2, i, j) # {}) =>
                LET rows == RowsBetween(n2, e2, i, j)
                    between == {k \in DOMAIN g.es :
                                  {g.es[k].u, g.es[k].v} = {i, j}}
                IN  /\ Cardinality(between) = 1
                    /\ \A k \in between :
                          /\ g.es[k].weight =
                                SumOver([r \in rows |-> e2[r].weight], rows)
                          /\ Elems(g.es[k].relationTypes) =
                                UNION {Elems(e2[r].relationTypes) : r \in rows}

\* C20: an edge without per-type counts keeps its weight under
\* remove-relation-types when one of its labels stays, and is dropped only
\* when none stays, also when other edges of the input carry counts.
C20_FallbackKeepsWeight ==
    (done > 0 /\ scenarios[done].kind = "remove") =>
        \A k \in DOMAIN edges0 :
            ~edges0[k].relationTypeCounts.isdict =>
                LET Stays(t) == t \notin scenarios[done].remove
                    rest == SelectSeq(edges0[k].relationTypes, Stays)
                    same == {j \in DOMAIN e2 :
                               /\ e2[j].source = edges0[k].source
                               /\ e2[j].target = edges0[k].target
                               /\ e2[j].relationTypes = rest}
                IN  IF rest # <<>>
                    THEN \E j \in same : e2[j].weight = edges0[k].weight
                    ELSE same = {}

\* the labels of a counted row that stay, and the place of the row in the
\* result: rows are processed one by one and survivors keep their order
Remaining(row, remove) == DOMAIN row.relationTypeCounts.d \ remove
RemainingSum(row, remove) ==
    SumOver(row.relationTypeCounts.d, Remaining(row, remove))
SurvivesCounts(row, remove) ==
    IF row.relationTypeCounts.isdict THEN RemainingSum(row, remove) > 0
    ELSE Elems(row.relationTypes) \ remove # {}
PlaceAfter(ed, remove, k) ==
    Cardinality({j \in 1..k : SurvivesCounts(ed[j], remove)})

\* C21: under remove-relation-types(R) an edge carrying per-type counts keeps
\* the counts of the labels outside R, its weight becomes their sum, its
\* relation-type list the remaining labels; it is dropped iff the sum is
\* <= 0; the node collection is returned unchanged.
C21_CountsRemoved ==
    (done > 0 /\ scenarios[done].kind = "remove"
       /\ \E k \in DOMAIN edges : HasCounts(edges[k].relationTypeCounts)) =>
        LET R == scenarios[done].remove
        IN  /\ n2 = nodes
            /\ Len(e2) = PlaceAfter(edges, R, Len(edges))
            /\ \A k \in DOMAIN edges :
                  (HasCounts(edges[k].relationTypeCounts)
                     /\ RemainingSum(edges[k], R) > 0) =>
                      LET out == e2[PlaceAfter(edges, R, k)]
                      IN  /\ out.source = edges[k].source
                          /\ out.target = edges[k].target
                          /\ out.relationTypeCounts.isdict
                          /\ out.relationTypeCounts.d =
                                Restrict(edges[k].relationTypeCounts.d,
                                         Remaining(edges[k], R))
                          /\ out.weight = RemainingSum(edges[k], R)
                          /\ Elems(out.relationTypes) = Remaining(edges[k], R)
                          /\ Len(out.relationTypes) =
                                Cardinality(Remaining(edges[k], R))

\* a counted edge loses one label and keeps another, next to a counted edge
\* that is dropped
C21_Witness ==
    /\ done > 0
    /\ scenarios[done].kind = "remove"
    /\ \E k, l \in DOMAIN edges :
          /\ HasCounts(edges[k].relationTypeCounts)
          /\ HasCounts(edges[l].relationTypeCounts)
          /\ Remaining(edges[k], scenarios[done].remove) # {}
          /\ Remaining(edges[k], scenarios[done].remove)
                # DOMAIN edges[k].relationTypeCounts.d
          /\ Remaining(edges[l], scenarios[done].remove) = {}
    /\ Len(e2) < Len(edges)
    /\ e2 # <<>>

\* the rows of the node frame a transform took out
RemovedRows(nd, out) == {i \in DOMAIN nd : nd[i] \notin Elems(out)}

\* C22: drop-top-degree-fraction removes the first k nodes of the ordering
\* by descending degree over the current graph, equal degrees in node order:
\* k nodes go, no surviving node has a higher degree than a removed one, or
\* the same degree and an earlier position, and no surviving edge names a
\* removed node.
C22_DropsTopStable ==
    (done > 0 /\ scenarios[done].kind = "drop") =>
        LET deg == Degree(ToIgraph(nodes, edges))
            gone == RemovedRows(nodes, n2)
            Before(j, i) == deg[j] > deg[i] \/ (deg[j] = deg[i] /\ j < i)
            Stays(l) == l \in Elems(n2)
        IN  /\ Cardinality(gone) =
                  Min2(DropCount(Len(nodes), scenarios[done].frac),
                       Len(nodes))
            /\ n2 = SelectSeq(nodes, Stays)
            /\ \A i \in gone : \A j \in DOMAIN nodes \ gone : ~Before(j, i)
            /\ \A k \in DOMAIN e2 :
                  /\ e2[k].source \notin {nodes[i] : i \in gone}
                  /\ e2[k].target \notin {nodes[i] : i \in gone}

\* the entries of a list are pairwise different
OneEach(ids) == \A i, j \in DOMAIN ids : ids[i] = ids[j] => i = j

\* C23: the built graph has exactly one vertex per distinct canonical id, in
\* the benchmark path (to_igraph over the lemma column) and in the
\* clustering path (build_igraph over the ids compute_degrees collected), and
\* every edge naming an id attaches to that vertex.
C23_OneVertexPerId ==
    /\ done > 0 =>
          /\ OneEach(g.id)
          /\ Elems(g.id) = Elems(n2)
          /\ VCount(g) = Cardinality(Elems(n2))
    /\ pc \in {"graph", "levels", "layouts", "written"} =>
          /\ OneEach(cg.name)
          /\ Elems(cg.name) \subseteq
                {CanonicalId(raw_nodes[i]) : i \in DOMAIN raw_nodes}
          /\ max_nodes.none =>
                Elems(cg.name) =
                    {CanonicalId(raw_nodes[i]) : i \in DOMAIN raw_nodes}

----------------------------------------------------------------------------
\* Properties of the clustering run

\* C1: the graph build_igraph returns has no self-loop and at most one edge
\* per unordered node pair, whatever duplicates, reversed duplicates and
\* self-loops the link list holds.
C1_ClusterGraphSimple == pc = "graph" => SimpleGraph(cg)

C1_Witness ==
    /\ pc = "graph"
    /\ raw_links = <<LinkRows[1], LinkRows[2], LinkRows[4]>>
    /\ Len(IgraphEdges(selected_ids, raw_links, id_map)) = 2
    /\ Len(cg.es) = 1

\* C3: resolving the canonical id of any node record through id_map gives
\* that canonical id back.
C3_CanonicalIdempotent ==
    pc \in {"idmap", "degrees", "selected", "graph"} =>
        \A i \in DOMAIN raw_nodes :
            CanonicalFromRawId(S(CanonicalId(raw_nodes[i])), id_map)
                = S(CanonicalId(raw_nodes[i]))

\* the string form of the first of lemma, label, name that is present and
\* not null, else the string form of node.get("id")
FieldOrder == <<"lemma", "label", "name">>
FirstPresent(node) ==
    LET P == {i \in DOMAIN FieldOrder :
                 Has(node, FieldOrder[i]) /\ node[FieldOrder[i]].kind # "none"}
    IN  IF P = {} THEN PyStr(Get(node, "id"))
        ELSE PyStr(node[FieldOrder[SetMin(P)]])

\* C4: the canonical id of a node record is the string form of the first
\* present non-null field among lemma, label, name, else of the id field:
\* these are the values id_map holds and the keys degree is built on.
C4_CanonicalPriority ==
    /\ pc \in {"idmap", "degrees", "selected", "graph"} =>
          \A i \in DOMAIN raw_nodes :
              (\A j \in DOMAIN raw_nodes :
                  j > i => OriginalId(raw_nodes[j]) # OriginalId(raw_nodes[i]))
              => id_map[OriginalId(raw_nodes[i])] = FirstPresent(raw_nodes[i])
    /\ pc \in {"degrees", "selected", "graph"} =>
          PairKeys(degree) = {FirstPresent(raw_nodes[i]) : i \in DOMAIN raw_nodes}

C4_Witness ==
    /\ pc = "graph"
    /\ raw_nodes = <<NodeRec(PyNone, S("b"), S("c"), I(1))>>
    /\ degree = << <<"b", 0>> >>
    /\ id_map["1"] = "b"

\* C11: when the clustered graph has no edge, run_leiden_levels calls no
\* detection algorithm and maps, at every configured level, node i to the
\* cluster {level}_solo_{i}: as many distinct singleton clusters as nodes.
C11_EdgelessSolo ==
    (pc \in {"levels", "layouts", "written"} /\ ECount(cg) = 0) =>
        /\ la_calls = 0
        /\ Len(levels_mapping) = Len(LEVELS)
        /\ \A k \in DOMAIN levels_mapping :
              /\ levels_mapping[k][1] = LEVELS[k].name
              /\ levels_mapping[k][2] =
                    [i \in DOMAIN selected_ids |->
                        <<selected_ids[i], Cid(LEVELS[k].name, TRUE, i - 1)>>]
              /\ Cardinality({levels_mapping[k][2][i][2] :
                                i \in DOMAIN levels_mapping[k][2]})
                    = Len(selected_ids)

C11_Witness ==
    /\ pc = "levels"
    /\ ECount(cg) = 0
    /\ VCount(cg) = 3
    /\ levels_mapping[2][2][3] = <<cg.name[3], Cid("cluster", TRUE, 2)>>

\* the nodes a level's positions list as members, with repetitions
RECURSIVE MembersOf(_)
MembersOf(pos) ==
    IF pos = <<>> THEN <<>> ELSE Head(pos)[2].members \o MembersOf(Tail(pos))

\* C12: at every level of the output each clustered node has exactly one
\* cluster id; the member lists of the level's positions are pairwise
\* disjoint and cover exactly the clustered nodes; a node's cluster in
\* `levels` is the one cluster whose member list holds it; each size is the
\* length of the member list.
C12_LevelsPartition ==
    output.written =>
        \A k \in DOMAIN output.levels :
            LET mapping == output.levels[k][2]
                pos == output.positions[k][2]
                all == MembersOf(pos)
            IN  /\ output.positions[k][1] = output.levels[k][1]
                /\ Len(mapping) = Len(selected_ids)
                /\ {mapping[i][1] : i \in DOMAIN mapping} = Elems(selected_ids)
                /\ Len(all) = Cardinality(Elems(all))
                /\ Elems(all) = Elems(selected_ids)
                /\ \A i \in DOMAIN mapping :
                      Cardinality({j \in DOMAIN pos :
                                     /\ pos[j][1] = mapping[i][2]
                                     /\ mapping[i][1] \in Elems(pos[j][2].members)})
                         = 1
                /\ \A j \in DOMAIN pos : pos[j][2].size = Len(pos[j][2].members)

C12_Witness ==
    /\ output.written
    /\ Len(selected_ids) >= 3
    /\ \E j \in DOMAIN output.positions[1][2] :
          output.positions[1][2][j][2].size >= 2
    /\ Len(output.positions[1][2]) >= 2
    /\ Len(output.positions[3][2]) = Len(selected_ids)

\* what the claim asks of one normalised coordinate f of cluster j on an
\* axis of raw coordinates
AxisBounded(f, axis, j) ==
    LET lo == SetMin(Elems(axis.v))
        hi == SetMax(Elems(axis.v))
        nearZero == hi = lo \/ (axis.scale = "tiny" /\ hi - lo < 10)
    IN  /\ 0 - 1000 * f.den <= f.num
        /\ f.num <= 1000 * f.den
        /\ nearZero => f.num = 0
        /\ ~nearZero =>
              /\ axis.v[j] = lo => f = [num |-> 0 - 1000, den |-> 1]
              /\ axis.v[j] = hi => f = [num |-> 1000, den |-> 1]

\* C13: every cluster position has x and y within [-1000, 1000]; on an
\* axis with spread the smallest raw coordinate maps to -1000 and the
\* largest to 1000; on an axis whose raw extent is below 1e-9 (a single
\* cluster included) every coordinate is 0.
C13_LayoutBounded ==
    pc \in {"layouts", "written"} =>
        \A k \in DOMAIN cluster_positions :
            \A j \in DOMAIN cluster_positions[k][2] :
                /\ AxisBounded(cluster_positions[k][2][j][2].x,
                               layout_trace[k].layout.x, j)
                /\ AxisBounded(cluster_positions[k][2][j][2].y,
                               layout_trace[k].layout.y, j)

C13_Witness ==
    /\ pc = "written"
    /\ \E k \in DOMAIN cluster_positions :
          /\ layout_trace[k].layout.x.scale = "tiny"
          /\ Len(cluster_positions[k][2]) >= 3
          /\ \E j \in DOMAIN cluster_positions[k][2] :
                /\ cluster_positions[k][2][j][2].y = [num |-> 1000, den |-> 1]
                /\ cluster_positions[k][2][j][2].x.num = 0
                /\ layout_trace[k].layout.x.v[j] # layout_trace[k].layout.x.v[1]
          /\ \E j \in DOMAIN cluster_positions[k][2] :
                cluster_positions[k][2][j][2].y.num
                    \notin {0 - 1000, 0, 1000}
    /\ \E k \in DOMAIN cluster_positions : Len(cluster_positions[k][2]) = 1

\* the links whose two ends have an entry in id_map
Resolved(links, idm) ==
    LET HasEntries(l) ==
            PyStr(l.source) \in DOMAIN idm /\ PyStr(l.target) \in DOMAIN idm
    IN  SelectSeq(links, HasEntries)

\* C14: a link with an end that has no entry in id_map is not an error; the
\* degrees, the built graph and the graphs between clusters are what they
\* are for the input without those links.
C14_UnresolvableDropped ==
    /\ ~LinkKeyError(raw_links) => pc # "key_error"
    /\ pc \in {"degrees", "selected", "graph", "levels", "layouts", "written"}
          => degree = ComputeDegrees(raw_nodes, Resolved(raw_links, id_map),
                                     id_map)
    /\ pc \in {"graph", "levels", "layouts", "written"}
          => cg = BuildIgraph(selected_ids, Resolved(raw_links, id_map), id_map)
    /\ pc \in {"layouts", "written"}
          => \A k \in DOMAIN layout_trace :
                layout_trace[k].graph =
                    ClusterLayoutGraph(levels_mapping[k][2],
                                       Resolved(raw_links, id_map), id_map)

C14_Witness ==
    /\ pc = "written"
    /\ Len(Resolved(raw_links, id_map)) < Len(raw_links)
    /\ ECount(cg) >= 1
    /\ \E k \in DOMAIN layout_trace : ECount(layout_trace[k].graph) >= 1
    /\ \E k \in DOMAIN raw_links :
          /\ PyStr(raw_links[k].source) \in DOMAIN id_map
          /\ PyStr(raw_links[k].target) \notin DOMAIN id_map

\* C16: a node record without any identifier field, or a link without
\* source or target, fails the run before anything is written.
C16_InvalidInputNoOutput ==
    (\/ \E i \in DOMAIN raw_nodes :
           \A f \in {"lemma", "label", "name", "id"} : ~NotNone(raw_nodes[i], f)
     \/ LinkKeyError(raw_links))
        => ~output.written

\* C18: without leidenalg the clustering run does not fail: it ends without
\* an import error.
C18_DegradesWithoutLeiden == ~la_installed => pc # "import_error"

\* the edges of the base graph with one endpoint in cluster A and the other
\* in cluster B
Crossing(gr, cluster_map, A, B) ==
    {k \in DOMAIN gr.es :
        {ClusterOf(cluster_map, gr.name[gr.es[k].u]),
         ClusterOf(cluster_map, gr.name[gr.es[k].v])} = {A, B}}

\* C24: in the cluster-layout graph of a level the edge between two distinct
\* clusters weighs the number of base-graph edges crossing between them;
\* pairs without a crossing edge have no edge, and no cluster has an edge to
\* itself.
C24_CrossingCount ==
    pc \in {"layouts", "written"} =>
        \A k \in DOMAIN layout_trace :
            LET lg == layout_trace[k].graph
                cm == levels_mapping[k][2]
                Between(i, j) ==
                    {q \in DOMAIN lg.es : {lg.es[q].u, lg.es[q].v} = {i, j}}
            IN  /\ \A i \in 1..lg.n : Between(i, i) = {}
                /\ \A i, j \in 1..lg.n :
                      i < j =>
                        LET n == Cardinality(Crossing(cg, cm, lg.name[i],
                                                      lg.name[j]))
                        IN  IF n = 0 THEN Between(i, j) = {}
                            ELSE /\ Cardinality(Between(i, j)) = 1
                                 /\ \A q \in Between(i, j) :
                                       lg.es[q].weight = n

----------------------------------------------------------------------------
\* Properties of the sampled metrics

\* C10: two invocations of a sampled metric with the same graph, seed and
\* sample size return the same result, whatever state the other random
\* calls left the module generator in before each of them.
C10_SampledDeterministic ==
    (ref.made /\ last.made) => ref.res = last.res

C10_Witness ==
    /\ ref.made /\ last.made
    /\ args.fn = "approx_distances_on_lcc"
    /\ ref.found # last.found
    /\ ref.found # RandomSeed(args.seed)
    /\ last.found # RandomSeed(args.seed)
    /\ args.samples < VCount(Giant(sg))
    /\ ~ref.res.dist.avg_path_lcc.none

C10_WitnessBridges ==
    /\ ref.made /\ last.made
    /\ args.fn = "top_bridges_betweenness_approx"
    /\ ref.found # last.found
    /\ args.samples < VCount(Giant(sg))
    /\ \E p \in DOMAIN last.res.bridges : last.res.bridges[p].betweenness > 0

\* the distances from a set of sources to the other nodes of a connected
\* graph: how many there are, their sum and their maximum
PairsFrom(gr, Src) == {p \in Src \X (1..gr.n) : p[1] # p[2]}
HopSum(gr, Src) ==
    SumOver([p \in PairsFrom(gr, Src) |-> Distances(gr, p[1])[p[2]]],
            PairsFrom(gr, Src))
HopMax(gr, Src) ==
    SetMax({Distances(gr, p[1])[p[2]] : p \in PairsFrom(gr, Src)})
TrueDiameter(gr) == HopMax(gr, 1..gr.n)

\* C25: when defined, diameter_lcc is the largest shortest-path distance
\* from the sampled sources, min(samples, n) distinct nodes of the LCC, to
\* the LCC's nodes, and avg_path_lcc the mean of those distances; the
\* diameter estimate never exceeds the true diameter of the LCC, and with
\* samples >= n both are exact: the true diameter and the mean distance over
\* all ordered pairs of distinct LCC nodes.
C25_DiameterLowerBound ==
    (ref.made /\ args.fn = "approx_distances_on_lcc"
       /\ ~ref.res.dist.diameter_lcc.none) =>
        LET On(lcc, n, r) ==
                /\ ~r.avg_path_lcc.none
                /\ \E Src \in SUBSET (1..n) :
                      /\ Cardinality(Src) = Min2(args.samples, n)
                      /\ r.diameter_lcc.v = HopMax(lcc, Src)
                      /\ r.avg_path_lcc =
                            SomeFrac(HopSum(lcc, Src),
                                     Cardinality(PairsFrom(lcc, Src)))
                /\ r.diameter_lcc.v <= TrueDiameter(lcc)
                /\ args.samples >= n =>
                      /\ r.diameter_lcc.v = TrueDiameter(lcc)
                      /\ r.avg_path_lcc =
                            SomeFrac(HopSum(lcc, 1..n), n * (n - 1))
            OnLcc(lcc) == On(lcc, VCount(lcc), ref.res.dist)
        IN  OnLcc(Giant(sg))

\* a sample of fewer sources than the LCC has nodes that misses the diameter
C25_Witness ==
    /\ ref.made
    /\ args.fn = "approx_distances_on_lcc"
    /\ ~ref.res.dist.diameter_lcc.none
    /\ args.samples < VCount(Giant(sg))
    /\ ref.res.dist.diameter_lcc.v < TrueDiameter(Giant(sg))

\* every node of the LCC is a source and the estimates are exact
C25_WitnessExact ==
    /\ ref.made
    /\ args.fn = "approx_distances_on_lcc"
    /\ args.samples >= VCount(Giant(sg))
    /\ ref.res.dist.diameter_lcc.v = TrueDiameter(Giant(sg))
    /\ TrueDiameter(Giant(sg)) >= 3

----------------------------------------------------------------------------
\* Properties of reading the input document

\* the same document with its two keys exchanged
Rekey(d) == [d EXCEPT !.links = d.edges, !.edges = d.links]
OneShape(d) == d.links.present # d.edges.present

\* C15: a document giving its edge collection under "links" is processed
\* exactly like the same document giving it under "edges": the benchmark run
\* ends its load the same way with the same frames, and the clustering run
\* reads the same links.
C15_LinksLikeEdges ==
    LET SameLoad(r) ==
            /\ (r.status = "ok") <=> (bpc \in {"loaded", "written"})
            /\ r.status # "ok" => bpc = r.status
            /\ r.status = "ok" => nodes0 = r.nodes /\ edges0 = r.edges
    IN  OneShape(doc) =>
            /\ bpc # "start" => SameLoad(LoadLemmaGraph(Rekey(doc)))
            /\ pc # "idle" => raw_links = ClusterLinks(Rekey(doc))

\* the metrics a degenerate graph leaves undefined
UndefinedOnDegenerate(m) ==
    /\ m.avg_path_lcc.none
    /\ m.diameter_lcc.none
    /\ m.clustering_lcc_none
    /\ m.max_kcore_none

\* C17: a degenerate graph is not an error: a document with a readable node
\* list and an edge collection that is empty or spans fewer than 2 nodes is
\* loaded without an exception, and every scenario result with fewer than 2
\* nodes or no edge reports avg_path_lcc, diameter_lcc, clustering_lcc and
\* max_kcore as null next to its node, edge and component counts.
C17_DegenerateNotError ==
    /\ ( /\ bpc # "start"
         /\ doc.edges.present
         /\ HasColumn(doc.nodes, "lemma")
         /\ (Len(doc.nodes) < 2 \/ doc.edges.rows = <<>>) )
       => bpc \in {"loaded", "written"}
    /\ \A k \in DOMAIN report :
          (report[k].metrics.n_nodes < 2 \/ report[k].metrics.n_edges = 0)
          => UndefinedOnDegenerate(report[k].metrics)

----------------------------------------------------------------------------
\* Properties of the query to Wikidata

\* C26: sparql_query sends at most max_retries requests and ends either by
\* returning the body of the first response that succeeded or by raising the
\* exception of the last attempt, which failed; RuntimeError("unreachable")
\* is never raised, also when every attempt is answered with status 429.
C26_ReturnsOrReraises ==
    /\ Len(sent) <= Max2(max_retries, 0)
    /\ spc = "done" =>
          \/ /\ outcome.kind = "return"
             /\ sent[Len(sent)].kind = "ok"
             /\ outcome.body = sent[Len(sent)].body
             /\ \A k \in 1..(Len(sent) - 1) : sent[k].kind # "ok"
          \/ /\ outcome.kind = "raise"
             /\ outcome.error # "RuntimeError"
             /\ Len(sent) = max_retries
             /\ outcome.error = Raised(sent[Len(sent)])

============================================================================
